---- MODULE Spec2Model ----
(***************************************************************************)
(* A model of the task decomposition pipeline of ai-task-bot:              *)
(*   - RateLimiter.acquire (src/utils/rate_limiter.py),                    *)
(*   - retry_with_backoff (src/utils/retry.py),                            *)
(*   - GitHubClient.execute_query (src/github/client.py),                  *)
(*   - CreateTaskWorkflow (src/ai/workflow.py).                            *)
(* Time is a global integer clock.  Every coroutine runs on one asyncio    *)
(* event loop: the code between two awaits is one atomic action, and a     *)
(* synchronous call (git clone, the oracle's generate_content) blocks the  *)
(* whole loop until it returns.                                            *)
(***************************************************************************)
EXTENDS Integers, Sequences, FiniteSets, TLC

\* ---------------------------------------------------------------- bounds
MaxTime == 4           \* the clock stops once nothing waits for it
MaxTimeout == 3        \* the timeout_seconds given to execute()
MaxRequests == 2       \* a small settings.GITHUB_API_MAX_REQUESTS
WindowSeconds == 1     \* a small settings.GITHUB_API_WINDOW_SECONDS
MaxCalls == 2          \* execute_query calls per bare caller
MaxFailedCalls == 1    \* execute_query calls per flow that meet transport failures
MaxSubtasks == 2       \* length of the oracle's subtask list
MaxTitleLen == 3       \* length of the enumerated titles
LongLen == 260         \* length of the long run of the over-long titles
MaxExisting == 6       \* length of the lists of existing titles
MaxFiles == 2          \* files found by the search for the keywords
MaxFunctions == 2      \* largest max_functions tried
MaxChars == 4          \* largest max_chars tried
MaxPush == 1           \* pushes to a branch of a remote

\* ------------------------------------------------------ program constants
MaxRetries == 3                    \* @retry_with_backoff(max_retries=3)
BaseDelay == 1                     \* base_delay: float = 1.0
ConfidenceThreshold == 70          \* state["confidence"] > 0.7, in hundredths
DefaultMaxRequests == 5000         \* GITHUB_API_MAX_REQUESTS: int = 5000

\* The concurrent flows: bare callers of a client, or invocations of execute().
Procs == {1, 2}
NoProc == 0
None == "None"
NoTitle == "<no title>"
NoFn == [op |-> "none"]

VARIABLES
  now,        \* time.time()
  settings,   \* the Settings object: CHECK_DUPLICATES, GITHUB_API_MAX_REQUESTS
  limOf,      \* limOf[p]: the RateLimiter (GitHubClient) flow p calls
  requests,   \* requests[l]: RateLimiter.requests, the deque of timestamps
  lock,       \* lock[l]: the holder of RateLimiter._lock, or NoProc
  cpc,        \* cpc[p]: where flow p is inside execute_query
  attempt,    \* attempt[p]: the retry wrapper's loop variable
  wake,       \* wake[p]: when the pending asyncio.sleep of p is over
  query,      \* query[p]: the GraphQL operation of the call in progress
  call,       \* call[p]: the current (or last) execute_query call of p: attempts
              \* that ended, seconds of backoff sleep asked for, acquire()
              \* admissions, and how the call ended
  sent,       \* sent[p][q]: transport attempts of kind q sent by p
  ncalls,     \* ncalls[p]: execute_query calls a bare caller has finished
  nfailed,    \* nfailed[p]: calls of p that met a transport failure
  pc,         \* pc[p]: the workflow node of invocation p
  running,    \* running[p]: p is inside a synchronous call (loop blocked)
  state,      \* state[p]: the WorkflowState of invocation p
  result,     \* result[p]: what execute() returned, once pc[p] = "returned"
  deadline,   \* deadline[p]: when asyncio.wait_for gives up
  executed,   \* executed[p]: the nodes invocation p has started, in order
  cloneHangs, \* cloneHangs[p]: the clone of invocation p never returns
  ci,         \* ci[p]: the locals of _create_issues
  tracker,    \* the issues of the external tracker, in creation order
  fn          \* the helper function under examination: its name, its
              \* argument and what its applications returned

rlVars   == <<requests, lock>>
callVars == <<cpc, attempt, wake, query, call>>
wfVars   == <<pc, running, state, result, deadline, executed, cloneHangs, ci>>
cfgVars  == <<settings, limOf>>
vars == <<now, settings, limOf, requests, lock, cpc, attempt, wake,
          query, call, sent, ncalls, nfailed, pc, running, state, result, deadline,
          executed, cloneHangs, ci, tracker, fn>>

QueryKinds == {"ids", "items", "fields", "create", "add", "size", "status"}

\* ------------------------------------------------------------ RateLimiter

\* while self.requests and self.requests[0] < now - self.window_seconds: popleft()
RECURSIVE DropExpired(_, _)
DropExpired(reqs, t) ==
  IF reqs # <<>> /\ Head(reqs) < t - WindowSeconds
  THEN DropExpired(Tail(reqs), t)
  ELSE reqs

\* sleep_time = (oldest + self.window_seconds) - now
SleepTime(reqs, t) == (Head(reqs) + WindowSeconds) - t

\* if len(self.requests) >= self.max_requests: ... if sleep_time > 0: sleep
MustSleep(reqs, t) ==
  /\ Len(reqs) >= settings.GITHUB_API_MAX_REQUESTS
  /\ SleepTime(reqs, t) > 0

\* get_remaining: valid_requests = [r for r in self.requests if r >= now - window]
ValidRequests(reqs, t) == {i \in 1..Len(reqs) : reqs[i] >= t - WindowSeconds}

GetRemaining(l) ==
  LET n == Cardinality(ValidRequests(requests[l], now))
  IN  IF settings.GITHUB_API_MAX_REQUESTS - n > 0
      THEN settings.GITHUB_API_MAX_REQUESTS - n ELSE 0

\* A call of execute_query that has just been made.
NewCall == [attempts |-> 0, slept |-> 0, admitted |-> 0, outcome |-> "none"]

\* The event loop is free when no flow is inside a synchronous call.
LoopFree == \A p \in Procs : ~running[p]

\* acquire() without `async with self._lock`: the expiry, the check and the
\* sleep or the append run whoever is sleeping inside acquire().
CallAcquire_NoLock(p, q, reqs0, holder, k) ==
  LET l == limOf[p]
      reqs == DropExpired(reqs0, now)
  IN  IF MustSleep(reqs, now)
      THEN /\ cpc' = [cpc EXCEPT ![p] = "rl_sleep"]
           /\ requests' = [requests EXCEPT ![l] = reqs]
           /\ lock' = [lock EXCEPT ![l] = p]
           /\ wake' = [wake EXCEPT ![p] = now + SleepTime(reqs, now)]
           /\ call' = [call EXCEPT ![p] = k]
           /\ UNCHANGED sent
      ELSE /\ cpc' = [cpc EXCEPT ![p] = "transport"]
           /\ requests' = [requests EXCEPT ![l] = Append(reqs, now)]
           /\ lock' = [lock EXCEPT ![l] = holder]
           /\ wake' = [wake EXCEPT ![p] = 0]
           /\ call' = [call EXCEPT ![p] = [k EXCEPT !.admitted = @ + 1]]
           /\ sent' = [sent EXCEPT ![p][q] = @ + 1]

\* acquire() admitting without `self.requests.append(now)`.
CallAcquire_NoTimestamp(p, q, reqs0, holder, k) ==
  LET l == limOf[p]
      reqs == DropExpired(reqs0, now)
  IN  IF holder # NoProc
      THEN /\ cpc' = [cpc EXCEPT ![p] = "want"]
           /\ requests' = [requests EXCEPT ![l] = reqs0]
           /\ lock' = [lock EXCEPT ![l] = holder]
           /\ wake' = [wake EXCEPT ![p] = 0]
           /\ call' = [call EXCEPT ![p] = k]
           /\ UNCHANGED sent
      ELSE /\ cpc' = [cpc EXCEPT ![p] = "transport"]
           /\ requests' = [requests EXCEPT ![l] = reqs]
           /\ lock' = [lock EXCEPT ![l] = NoProc]
           /\ wake' = [wake EXCEPT ![p] = 0]
           /\ call' = [call EXCEPT ![p] = [k EXCEPT !.admitted = @ + 1]]
           /\ sent' = [sent EXCEPT ![p][q] = @ + 1]

\* acquire() called by p, in the call recorded as k, on a limiter whose deque
\* is reqs0 and whose lock is held by holder.  `async with self._lock`
\* suspends only when the lock is taken (cpc = "want"), and no code path releases a lock that was held
\* across an await short of a cancellation; otherwise the expiry, the check
\* and the sleep or the append run at once, and after the append
\* execute_query goes on to requests.post.
CallAcquire(p, q, reqs0, holder, k) ==
  LET l == limOf[p]
      reqs == DropExpired(reqs0, now)
  IN  IF holder # NoProc
      THEN /\ cpc' = [cpc EXCEPT ![p] = "want"]
           /\ requests' = [requests EXCEPT ![l] = reqs0]
           /\ lock' = [lock EXCEPT ![l] = holder]
           /\ wake' = [wake EXCEPT ![p] = 0]
           /\ call' = [call EXCEPT ![p] = k]
           /\ UNCHANGED sent
      ELSE IF MustSleep(reqs, now)
      THEN /\ cpc' = [cpc EXCEPT ![p] = "rl_sleep"]
           /\ requests' = [requests EXCEPT ![l] = reqs]
           /\ lock' = [lock EXCEPT ![l] = p]
           /\ wake' = [wake EXCEPT ![p] = now + SleepTime(reqs, now)]
           /\ call' = [call EXCEPT ![p] = k]
           /\ UNCHANGED sent
      ELSE /\ cpc' = [cpc EXCEPT ![p] = "transport"]
           /\ requests' = [requests EXCEPT ![l] = Append(reqs, now)]
           /\ lock' = [lock EXCEPT ![l] = NoProc]
           /\ wake' = [wake EXCEPT ![p] = 0]
           /\ call' = [call EXCEPT ![p] = [k EXCEPT !.admitted = @ + 1]]
           /\ sent' = [sent EXCEPT ![p][q] = @ + 1]

\* await asyncio.sleep(sleep_time); return await self.acquire()
\* The recursive call finds the lock held, by its own caller: asyncio.Lock
\* is not reentrant.
SleepDone(p) ==
  /\ LoopFree
  /\ cpc[p] = "rl_sleep"
  /\ now >= wake[p]
  /\ CallAcquire(p, query[p], requests[limOf[p]], lock[limOf[p]], call[p])
  /\ UNCHANGED <<now, attempt, query, ncalls, nfailed, tracker>>
  /\ UNCHANGED wfVars /\ UNCHANGED cfgVars /\ UNCHANGED fn

\* --------------------------------------------------- retry_with_backoff

\* The test of the last attempt off by one (`attempt == max_retries`): the
\* wrapper sleeps after the third failure too and falls out of the loop.
IsFinalAttempt_OneMore(a) == a = MaxRetries

\* if attempt == max_retries - 1: raise
IsFinalAttempt(a) == a = MaxRetries - 1

\* The delay without the exponent: every sleep lasts base_delay.
RetryDelay_Constant(a) == BaseDelay

\* delay = base_delay * (2**attempt)
RetryDelay(a) == BaseDelay * (2 ^ a)

\* ------------------------------------------------------ the tracker side

\* An issue of the tracker: by/sub name the invocation and subtask that made it.
Issue(t, s, b, by, sub) ==
  [title |-> t, state |-> s, onBoard |-> b, by |-> by, sub |-> sub]

\* The project before any invocation: empty, or one open and one closed item.
InitialTrackers ==
  { <<>>,
    << Issue("feat: add login", "OPEN", TRUE, 0, 0),
       Issue("fix(db): timeout", "CLOSED", TRUE, 0, 0) >> }

\* GET_PROJECT_FIELDS answers: the board's Size and Status fields and options.
NoField == [present |-> FALSE, options |-> {}]
Field(opts) == [present |-> TRUE, options |-> opts]
NoFields == [size |-> NoField, status |-> NoField]
ProjectFields ==
  { NoFields,
    [size |-> Field({"S", "L"}), status |-> Field({"Backlog"})] }

\* settings.DEFAULT_PROJECT_STATUS
DefaultProjectStatus == "Backlog"

\* --------------------------------------------------------- pure helpers

\* The mapping with "L" as its default.
ConvertEffortToSize_DefaultsToLarge(e) == IF e \in {"S", "M", "L"} THEN e ELSE "L"

\* convert_effort_to_size: mapping.get(estimated_effort, "M")
ConvertEffortToSize(e) == IF e \in {"S", "M", "L"} THEN e ELSE "M"

\* get_size_option_id(options, value) is not None
HasOption(field, value) == field.present /\ value \in field.options

\* validate_and_format_title(title, auto_fix=True)[0] on the titles of the model
FormatTitle(t) == IF t = "add login" THEN "feat: add login" ELSE t

\* normalize_title: strip the conventional prefix, lower-case, strip
NormalizeTitle(t) ==
  CASE t = "feat: add login" -> "add login"
    [] t = "fix(db): timeout" -> "timeout"
    [] OTHER -> t

\* calculate_similarity (SequenceMatcher ratio of the lower-cased strings), in
\* hundredths, on the normalized titles of the model
CalculateSimilarity(a, b) ==
  IF a = b THEN 100
  ELSE IF {a, b} = {"add login", "timeout"} THEN 12
  ELSE 0

\* settings.DUPLICATE_SIMILARITY_THRESHOLD = 0.8, in hundredths
DuplicateThreshold == 80

\* find_similar_issues: the existing titles at or above the threshold
FindSimilarIssues(t, existing) ==
  {e \in existing :
     CalculateSimilarity(NormalizeTitle(t), NormalizeTitle(e)) >= DuplicateThreshold}

\* check_for_duplicates(...)[0]
CheckForDuplicates(t, existing) == FindSimilarIssues(t, existing) # {}

\* existing_issues from the board's nodes, then filter_existing_issues
\* with include_closed = False
FilterExistingIssues(trk) ==
  {trk[n].title : n \in {m \in 1..Len(trk) : trk[m].onBoard /\ trk[m].state # "CLOSED"}}

\* The duplicate check with the `continue` left out: the matches are logged
\* and the subtask is created all the same.
IsSkipped_WarnOnly(t, filtered) == FALSE

\* if settings.CHECK_DUPLICATES and filtered_issues: ... if is_duplicate: continue
IsSkipped(t, filtered) ==
  /\ settings.CHECK_DUPLICATES
  /\ filtered # {}
  /\ CheckForDuplicates(t, filtered)

\* The loop head of _create_issues from subtask j on: format the title, skip
\* the duplicates, and stop at the first subtask that needs a create-issue
\* call (at), at a subtask without a title (raised: KeyError), or past the end.
RECURSIVE ScanFrom(_, _, _)
ScanFrom(subs, j, filtered) ==
  IF j > Len(subs) THEN [at |-> j, raised |-> FALSE, skipped |-> 0]
  ELSE IF subs[j].title = NoTitle THEN [at |-> j, raised |-> TRUE, skipped |-> 0]
  ELSE IF IsSkipped(FormatTitle(subs[j].title), filtered)
       THEN LET r == ScanFrom(subs, j + 1, filtered)
            IN  [r EXCEPT !.skipped = @ + 1]
       ELSE [at |-> j, raised |-> FALSE, skipped |-> 0]

\* subtask["title"] = formatted_title, for the subtasks j..m the loop reached
FormatTitles(subs, j, m) ==
  [n \in 1..Len(subs) |->
     IF j <= n /\ n <= m /\ subs[n].title # NoTitle
     THEN [subs[n] EXCEPT !.title = FormatTitle(@)]
     ELSE subs[n]]

\* _should_create_tasks with `>=` in place of `>`: a verdict of exactly 0.7
\* would end the workflow.
ShouldCreateTasks_AtLeast(s) ==
  IF s.error # "" THEN "skip"
  ELSE IF s.is_implemented /\ s.confidence >= ConfidenceThreshold THEN "skip"
  ELSE "create"

\* _should_create_tasks
ShouldCreateTasks(s) ==
  IF s.error # "" THEN "skip"
  ELSE IF s.is_implemented /\ s.confidence > ConfidenceThreshold THEN "skip"
  ELSE "create"

\* ------------------------------------------------------- WorkflowState

\* execute(): initial_state = WorkflowState(...)
InitialState ==
  [repo_path |-> None, is_implemented |-> FALSE, confidence |-> 0,
   subtasks |-> <<>>, created_issues |-> <<>>, error |-> ""]

\* The locals of _create_issues.  skipped and failed count the subtasks the
\* loop skipped as duplicates and the subtasks whose processing raised;
\* raisedAt names the step whose exception reached the except clause.
InitialLocals ==
  [filtered |-> {}, size_field |-> NoField, status_field |-> NoField,
   created_issues |-> <<>>, i |-> 0, issue_id |-> 0, skipped |-> 0, failed |-> 0,
   raisedAt |-> "none"]

\* The oracle's analysis verdicts, confidence in hundredths.
AnalysisVerdicts ==
  { [raised |-> FALSE, is_implemented |-> TRUE, confidence |-> 85],
    [raised |-> FALSE, is_implemented |-> TRUE, confidence |-> 70],
    [raised |-> FALSE, is_implemented |-> TRUE, confidence |-> 50],
    [raised |-> FALSE, is_implemented |-> FALSE, confidence |-> 85] }

\* The subtasks the oracle may return.
SubtaskPool ==
  { [title |-> "add login", effort |-> "S"],
    [title |-> "fix(db): timeout", effort |-> "XL"],
    [title |-> NoTitle, effort |-> "M"] }

SubtaskLists == UNION {[1..n -> SubtaskPool] : n \in 0..MaxSubtasks}

WorkflowNodes ==
  {"clone_repo", "analyze_implementation", "breakdown_task", "create_issues"}
BlockingNodes == {"clone_repo", "analyze_implementation", "breakdown_task"}
LoopQueries == {"create", "add", "size", "status"}

CurrentSubtask(p) == state[p].subtasks[ci[p].i]

\* The graph reached END: ainvoke returns the state and execute returns it.
ReturnState(p, s) ==
  /\ state' = [state EXCEPT ![p] = s]
  /\ result' = [result EXCEPT ![p] = s]
  /\ pc' = [pc EXCEPT ![p] = "returned"]

\* _create_issues is left: its locals and its GitHubClient are gone.  The
\* list it accumulated, the subtask it had reached, its two counters and the
\* step that raised are kept for the record.
Leave(c) ==
  [InitialLocals EXCEPT !.filtered = c.filtered,
                        !.created_issues = c.created_issues, !.i = c.i,
                        !.skipped = c.skipped, !.failed = c.failed,
                        !.raisedAt = c.raisedAt]

\* -------------------------------------------------------- _create_issues

\* The next `await github.execute_query(q, ...)` of _create_issues, on a
\* limiter whose deque is reqs0 and whose lock nobody holds.
NextQuery(p, c, q, reqs0) ==
  /\ ci' = [ci EXCEPT ![p] = c]
  /\ query' = [query EXCEPT ![p] = q]
  /\ attempt' = [attempt EXCEPT ![p] = 0]
  /\ CallAcquire(p, q, reqs0, NoProc, NewCall)

\* _create_issues is over: its client and its locals are gone.
LeaveCreateIssues(p, c) ==
  /\ ci' = [ci EXCEPT ![p] = Leave(c)]
  /\ cpc' = [cpc EXCEPT ![p] = "none"]
  /\ query' = [query EXCEPT ![p] = "ids"]
  /\ attempt' = [attempt EXCEPT ![p] = 0]
  /\ wake' = [wake EXCEPT ![p] = 0]
  /\ call' = [call EXCEPT ![p] = NewCall]
  /\ requests' = [requests EXCEPT ![limOf[p]] = <<>>]
  /\ lock' = [lock EXCEPT ![limOf[p]] = NoProc]
  /\ UNCHANGED sent

\* The except clause of _create_issues if it only logged the exception.
RaiseInCreateIssues_Silent(p, c, subs) ==
  /\ LeaveCreateIssues(p, c)
  /\ ReturnState(p, [state[p] EXCEPT !.subtasks = subs])

\* except Exception as e: state["error"] = f"Issue creation failed: ..."
\* The local created_issues list is dropped: state["created_issues"] is
\* assigned only after the loop.
RaiseInCreateIssues(p, c, subs) ==
  /\ LeaveCreateIssues(p, c)
  /\ ReturnState(p, [state[p] EXCEPT !.subtasks = subs,
                                     !.error = "Issue creation failed"])

\* The loop of _create_issues if a subtask without a title were counted as
\* failed and the loop went on with the subtask after it.
EnterLoop_GoesOn(p, c, j) ==
  LET subs == state[p].subtasks
      r == ScanFrom(subs, j, c.filtered)
      c2 == [c EXCEPT !.skipped = @ + r.skipped, !.i = r.at]
      c3 == [c2 EXCEPT !.failed = @ + 1, !.raisedAt = "title", !.i = r.at + 1]
  IN  IF r.raised /\ (r.at = Len(subs) \/ subs[r.at + 1].title = NoTitle)
      THEN RaiseInCreateIssues_Silent(p, [c3 EXCEPT !.i = r.at], subs)
      ELSE IF r.raised
      THEN /\ NextQuery(p, c3, "create", requests[limOf[p]])
           /\ UNCHANGED <<pc, state, result>>
      ELSE IF r.at > Len(subs)
      THEN /\ LeaveCreateIssues(p, c2)
           /\ ReturnState(p, [state[p] EXCEPT !.created_issues = c.created_issues])
      ELSE /\ NextQuery(p, c2, "create", requests[limOf[p]])
           /\ UNCHANGED <<pc, state, result>>

\* for i, subtask in enumerate(state["subtasks"], 1): from subtask j on, up to
\* the next create-issue call, the exception, or the end of the loop, where
\* state["created_issues"] = created_issues.
EnterLoop(p, c, j) ==
  LET subs == state[p].subtasks
      r == ScanFrom(subs, j, c.filtered)
      m == IF r.at > Len(subs) THEN Len(subs) ELSE r.at
      subs2 == FormatTitles(subs, j, m)
      c2 == [c EXCEPT !.skipped = @ + r.skipped, !.i = r.at]
  IN  IF r.raised
      THEN RaiseInCreateIssues(
             p, [c2 EXCEPT !.failed = @ + 1, !.raisedAt = "title"], subs2)
      ELSE IF r.at > Len(subs)
      THEN /\ LeaveCreateIssues(p, c2)
           /\ ReturnState(p, [state[p] EXCEPT !.subtasks = subs2,
                                              !.created_issues = c.created_issues])
      ELSE /\ state' = [state EXCEPT ![p].subtasks = subs2]
           /\ NextQuery(p, c2, "create", requests[limOf[p]])
           /\ UNCHANGED <<pc, result>>

\* if size_field: ... if size_option_id: execute_query(UPDATE_PROJECT_FIELD)
NeedsSize(p, c) ==
  HasOption(c.size_field, ConvertEffortToSize(CurrentSubtask(p).effort))

\* if status_field: ... if status_option_id: execute_query(UPDATE_PROJECT_FIELD)
NeedsStatus(c) == HasOption(c.status_field, DefaultProjectStatus)

\* The end of one loop iteration without the append to created_issues.
Appended_Forgets(p, c) == EnterLoop(p, c, c.i + 1)

\* created_issues.append({"title": subtask["title"], "url": issue_url})
Appended(p, c) ==
  EnterLoop(p, [c EXCEPT !.created_issues =
                  Append(@, [title |-> CurrentSubtask(p).title, url |-> c.issue_id])],
            c.i + 1)

\* The query that follows the successful query q in _create_issues, or "loop"
\* when the loop head comes next.
FollowUp(p, c, q) ==
  CASE q = "ids" -> IF settings.CHECK_DUPLICATES THEN "items" ELSE "fields"
    [] q = "items" -> "fields"
    [] q = "fields" -> "loop"
    [] q = "create" -> "add"
    [] q = "add" -> IF NeedsSize(p, c) THEN "size"
                    ELSE IF NeedsStatus(c) THEN "status" ELSE "loop"
    [] q = "size" -> IF NeedsStatus(c) THEN "status" ELSE "loop"
    [] q = "status" -> "loop"

\* The snapshot of the existing items read again whenever a create-issue
\* call returns, instead of once before the loop.
Bind_Refreshes(c, q, f) ==
  CASE q = "items" -> [c EXCEPT !.filtered = FilterExistingIssues(tracker)]
    [] q = "fields" -> [c EXCEPT !.size_field = f.size, !.status_field = f.status]
    [] q = "create" -> [c EXCEPT !.issue_id = Len(tracker) + 1,
                                 !.filtered = FilterExistingIssues(tracker)]
    [] OTHER -> c

\* What the successful query q leaves in the locals of _create_issues.
Bind(c, q, f) ==
  CASE q = "items" -> [c EXCEPT !.filtered = FilterExistingIssues(tracker)]
    [] q = "fields" -> [c EXCEPT !.size_field = f.size, !.status_field = f.status]
    [] q = "create" -> [c EXCEPT !.issue_id = Len(tracker) + 1]
    [] OTHER -> c

\* What _create_issues does when the awaited execute_query returns (o = "ok",
\* with f the answer of GET_PROJECT_FIELDS) or raises.
Continue(p, o, f) ==
  LET q == query[p]
      c == Bind(ci[p], q, f)
      nxt == FollowUp(p, c, q)
  IN  IF o # "ok"
      THEN RaiseInCreateIssues(
             p, [ci[p] EXCEPT !.failed = @ + (IF q \in LoopQueries THEN 1 ELSE 0),
                              !.raisedAt = q],
             state[p].subtasks)
      ELSE IF nxt = "loop"
      THEN IF q = "fields" THEN EnterLoop(p, c, 1) ELSE Appended(p, c)
      ELSE /\ NextQuery(p, c, nxt, requests[limOf[p]])
           /\ UNCHANGED <<pc, state, result>>

\* --------------------------------------------------------- execute_query

\* Failures hit at most MaxFailedCalls calls of a flow, any attempt of them.
MayFail(p) == attempt[p] > 0 \/ nfailed[p] < MaxFailedCalls

\* What the transport call of p can do: answer, answer with data that lacks
\* the expected keys (bad), fail before the tracker committed the request
\* (fail), or fail on the response leg after the tracker committed it (lost).
Outcomes(p) ==
  {"ok"}
  \cup (IF MayFail(p) THEN {"fail"} ELSE {})
  \cup (IF MayFail(p) /\ query[p] = "create" /\ pc[p] # "caller" THEN {"lost"} ELSE {})
  \cup (IF pc[p] # "caller" /\ query[p] \in {"ids", "items", "fields"}
        THEN {"bad"} ELSE {})
  \cup (IF MayFail(p) /\ pc[p] = "caller" THEN {"errors"} ELSE {})

\* The attempt raised: a transport or HTTP error ("fail", "lost") or an
\* "errors" member in the reply.
Raised(o) == o \in {"fail", "lost", "errors"}

Committed(p, o) == o \in {"ok", "lost"}

\* A tracker that treats create-issue as idempotent per subtask: a create
\* call for a subtask that already has an item of this run adds nothing.
TrackerAfter_Idempotent(p, commit) ==
  IF commit /\ query[p] = "create" /\ pc[p] # "caller"
  THEN IF \E n \in 1..Len(tracker) : tracker[n].by = p /\ tracker[n].sub = ci[p].i
       THEN tracker
       ELSE Append(tracker, Issue(CurrentSubtask(p).title, "OPEN", FALSE, p, ci[p].i))
  ELSE IF commit /\ query[p] = "add" /\ pc[p] # "caller"
  THEN [tracker EXCEPT ![ci[p].issue_id].onBoard = TRUE]
  ELSE tracker

\* The tracker after it handled (or not) the request of p.
TrackerAfter(p, commit) ==
  IF commit /\ query[p] = "create" /\ pc[p] # "caller"
  THEN Append(tracker, Issue(CurrentSubtask(p).title, "OPEN", FALSE, p, ci[p].i))
  ELSE IF commit /\ query[p] = "add" /\ pc[p] # "caller"
  THEN [tracker EXCEPT ![ci[p].issue_id].onBoard = TRUE]
  ELSE tracker

\* A bare caller's execute_query returned (o = "ok") or raised the error o of
\* its last attempt.
CallerReturn(p, o) ==
  /\ cpc' = [cpc EXCEPT ![p] = "none"]
  /\ ncalls' = [ncalls EXCEPT ![p] = @ + 1]
  /\ call' = [call EXCEPT ![p].outcome = o, ![p].attempts = @ + 1]
  /\ wake' = [wake EXCEPT ![p] = 0]
  /\ UNCHANGED <<attempt, query, sent, pc, state, result, ci>>
  /\ UNCHANGED rlVars

\* A failed attempt that gives its slot back: the timestamp appended by
\* acquire() for the attempt is removed from the window.
Backoff_Refunds(p) ==
  /\ cpc' = [cpc EXCEPT ![p] = "backoff"]
  /\ wake' = [wake EXCEPT ![p] = now + RetryDelay(attempt[p])]
  /\ call' = [call EXCEPT ![p].slept = @ + RetryDelay(attempt[p]),
                          ![p].attempts = @ + 1]
  /\ requests' = [requests EXCEPT ![limOf[p]] = SubSeq(@, 1, Len(@) - 1)]
  /\ UNCHANGED <<lock, attempt, query, sent, ncalls, pc, state, result, ci>>

\* The retry wrapper's except branch before the last attempt:
\* await asyncio.sleep(delay)
Backoff(p) ==
  /\ cpc' = [cpc EXCEPT ![p] = "backoff"]
  /\ wake' = [wake EXCEPT ![p] = now + RetryDelay(attempt[p])]
  /\ call' = [call EXCEPT ![p].slept = @ + RetryDelay(attempt[p]),
                          ![p].attempts = @ + 1]
  /\ UNCHANGED <<attempt, query, sent, ncalls, pc, state, result, ci>>
  /\ UNCHANGED rlVars

\* The awaited requests.post finished: raise_for_status, the errors check,
\* then the retry wrapper and the caller's code up to its next await.
Transport(p) ==
  /\ LoopFree
  /\ cpc[p] = "transport"
  /\ \E o \in Outcomes(p), f \in ProjectFields :
       /\ query[p] # "fields" => f = NoFields
       /\ tracker' = TrackerAfter(p, Committed(p, o))
       /\ nfailed' = [nfailed EXCEPT ![p] =
                        @ + (IF Raised(o) /\ attempt[p] = 0 THEN 1 ELSE 0)]
       /\ IF Raised(o) /\ ~IsFinalAttempt(attempt[p])
          THEN Backoff(p)
          ELSE IF pc[p] = "caller"
          THEN CallerReturn(p, o)
          ELSE /\ Continue(p, IF o = "ok" THEN "ok" ELSE "raise", f)
               /\ UNCHANGED ncalls
  /\ UNCHANGED <<now, running, deadline, executed, cloneHangs>>
  /\ UNCHANGED cfgVars /\ UNCHANGED fn

\* The retry going straight back to the transport call, as if acquire() were
\* called once, outside the retry loop.
BackoffDone_NoAcquire(p) ==
  /\ LoopFree
  /\ cpc[p] = "backoff"
  /\ now >= wake[p]
  /\ attempt' = [attempt EXCEPT ![p] = @ + 1]
  /\ cpc' = [cpc EXCEPT ![p] = "transport"]
  /\ wake' = [wake EXCEPT ![p] = 0]
  /\ UNCHANGED <<now, query, call, sent, ncalls, nfailed, tracker>>
  /\ UNCHANGED rlVars /\ UNCHANGED wfVars /\ UNCHANGED cfgVars /\ UNCHANGED fn

\* The backoff sleep is over: the next iteration of the retry loop calls
\* execute_query again, which starts with acquire().
BackoffDone(p) ==
  /\ LoopFree
  /\ cpc[p] = "backoff"
  /\ now >= wake[p]
  /\ attempt' = [attempt EXCEPT ![p] = @ + 1]
  /\ CallAcquire(p, query[p], requests[limOf[p]], lock[limOf[p]], call[p])
  /\ UNCHANGED <<now, query, ncalls, nfailed, tracker>>
  /\ UNCHANGED wfVars /\ UNCHANGED cfgVars /\ UNCHANGED fn

\* A bare caller (a bot command) calls client.execute_query(...).
CallerStart(p) ==
  /\ LoopFree
  /\ pc[p] = "caller"
  /\ cpc[p] = "none"
  /\ ncalls[p] < MaxCalls
  /\ attempt' = [attempt EXCEPT ![p] = 0]
  /\ CallAcquire(p, query[p], requests[limOf[p]], lock[limOf[p]], NewCall)
  /\ UNCHANGED <<now, query, ncalls, nfailed, tracker>>
  /\ UNCHANGED wfVars /\ UNCHANGED cfgVars /\ UNCHANGED fn

\* ---------------------------------------------------- CreateTaskWorkflow

\* execute(task_description, repo_url, timeout_seconds): wait_for(ainvoke(...))
Start(p) ==
  /\ LoopFree
  /\ pc[p] = "idle"
  /\ deadline' = [deadline EXCEPT ![p] = now + MaxTimeout]
  /\ \E h \in BOOLEAN : cloneHangs' = [cloneHangs EXCEPT ![p] = h]
  /\ pc' = [pc EXCEPT ![p] = "clone_repo"]
  /\ state' = [state EXCEPT ![p] = InitialState]
  /\ UNCHANGED <<now, sent, ncalls, nfailed, tracker, running, result, executed, ci>>
  /\ UNCHANGED rlVars /\ UNCHANGED callVars /\ UNCHANGED cfgVars /\ UNCHANGED fn

\* The graph runtime starts the node pc[p]; the three nodes of BlockingNodes
\* never await before their synchronous call returns.
BeginNode(p) ==
  /\ LoopFree
  /\ pc[p] \in BlockingNodes
  /\ running' = [running EXCEPT ![p] = TRUE]
  /\ executed' = [executed EXCEPT ![p] = Append(@, pc[p])]
  /\ UNCHANGED <<now, sent, ncalls, nfailed, tracker, pc, state, result, deadline,
                 cloneHangs, ci>>
  /\ UNCHANGED rlVars /\ UNCHANGED callVars /\ UNCHANGED cfgVars /\ UNCHANGED fn

\* _clone_repo on the outcome of clone_or_update
CloneRepoNode(s, ok) ==
  IF ok THEN [s EXCEPT !.repo_path = "repo"]
  ELSE [s EXCEPT !.error = "Clone failed"]

\* The edge out of clone_repo skipping the analysis.
AfterClone_SkipsAnalysis(s) == "breakdown_task"

\* workflow.add_edge("clone_repo", "analyze_implementation")
AfterClone(s) == "analyze_implementation"

\* _clone_repo returns and the graph follows its edge.
CloneRepo(p) ==
  /\ running[p]
  /\ pc[p] = "clone_repo"
  /\ ~cloneHangs[p]
  /\ \E ok \in BOOLEAN :
       LET s == CloneRepoNode(state[p], ok)
       IN  /\ state' = [state EXCEPT ![p] = s]
           /\ pc' = [pc EXCEPT ![p] = AfterClone(s)]
  /\ running' = [running EXCEPT ![p] = FALSE]
  /\ UNCHANGED <<now, sent, ncalls, nfailed, tracker, result, deadline, executed,
                 cloneHangs, ci>>
  /\ UNCHANGED rlVars /\ UNCHANGED callVars /\ UNCHANGED cfgVars /\ UNCHANGED fn

\* What analyze_implementation_status can do: raise, or return a verdict.
\* With repo_path = None, get_file_tree raises (None has no iterdir).
AnalysisOutcomes(s) ==
  IF s.repo_path = None
  THEN {[raised |-> TRUE, is_implemented |-> FALSE, confidence |-> 0]}
  ELSE {[raised |-> TRUE, is_implemented |-> FALSE, confidence |-> 0]}
       \cup AnalysisVerdicts

\* _analyze_implementation on the outcome a
AnalyzeImplementation(s, a) ==
  IF a.raised THEN [s EXCEPT !.error = "Analysis failed"]
  ELSE [s EXCEPT !.is_implemented = a.is_implemented, !.confidence = a.confidence]

\* _analyze_implementation returns; the conditional edge _should_create_tasks
\* routes to breakdown_task or END.
Analyze(p) ==
  /\ running[p]
  /\ pc[p] = "analyze_implementation"
  /\ \E a \in AnalysisOutcomes(state[p]) :
       LET s == AnalyzeImplementation(state[p], a)
       IN  IF ShouldCreateTasks(s) = "skip"
           THEN ReturnState(p, s)
           ELSE /\ state' = [state EXCEPT ![p] = s]
                /\ pc' = [pc EXCEPT ![p] = "breakdown_task"]
                /\ UNCHANGED result
  /\ running' = [running EXCEPT ![p] = FALSE]
  /\ UNCHANGED <<now, sent, ncalls, nfailed, tracker, deadline, executed, cloneHangs, ci>>
  /\ UNCHANGED rlVars /\ UNCHANGED callVars /\ UNCHANGED cfgVars /\ UNCHANGED fn

\* What _breakdown_task can do: raise, or store the oracle's subtask list.
BreakdownOutcomes ==
  {[raised |-> TRUE, subtasks |-> <<>>]}
  \cup {[raised |-> FALSE, subtasks |-> subs] : subs \in SubtaskLists}

\* _breakdown_task if its except clause left a stub subtask in the state.
BreakdownTaskNode_LeavesStub(s, b) ==
  IF b.raised
  THEN [s EXCEPT !.error = "Breakdown failed",
                 !.subtasks = <<[title |-> "fix(db): timeout", effort |-> "M"]>>]
  ELSE [s EXCEPT !.subtasks = b.subtasks]

\* _breakdown_task on the outcome b
BreakdownTaskNode(s, b) ==
  IF b.raised THEN [s EXCEPT !.error = "Breakdown failed"]
  ELSE [s EXCEPT !.subtasks = b.subtasks]

\* _breakdown_task returns; add_edge("breakdown_task", "create_issues")
BreakdownTask(p) ==
  /\ running[p]
  /\ pc[p] = "breakdown_task"
  /\ \E b \in BreakdownOutcomes :
       state' = [state EXCEPT ![p] = BreakdownTaskNode(@, b)]
  /\ pc' = [pc EXCEPT ![p] = "create_issues"]
  /\ running' = [running EXCEPT ![p] = FALSE]
  /\ UNCHANGED <<now, sent, ncalls, nfailed, tracker, result, deadline, executed,
                 cloneHangs, ci>>
  /\ UNCHANGED rlVars /\ UNCHANGED callVars /\ UNCHANGED cfgVars /\ UNCHANGED fn

\* _create_issues up to its first await: github = GitHubClient() (a new
\* RateLimiter), created_issues = [], execute_query(GET_REPOSITORY_AND_PROJECT_IDS)
CreateIssues(p) ==
  /\ LoopFree
  /\ pc[p] = "create_issues"
  /\ cpc[p] = "none"
  /\ executed' = [executed EXCEPT ![p] = Append(@, "create_issues")]
  /\ NextQuery(p, InitialLocals, "ids", <<>>)
  /\ UNCHANGED <<now, ncalls, nfailed, tracker, running, deadline, cloneHangs,
                 pc, state, result>>
  /\ UNCHANGED cfgVars /\ UNCHANGED fn

\* A timer that could not cancel a task suspended on `async with self._lock`.
TimeoutEnabled_NotOnLock(p) ==
  /\ LoopFree
  /\ pc[p] \in WorkflowNodes
  /\ now >= deadline[p]
  /\ cpc[p] # "want"

\* asyncio.wait_for: the timer callback runs once the budget is over and the
\* loop is free; it cancels the task at the await it is suspended on.
TimeoutEnabled(p) ==
  /\ LoopFree
  /\ pc[p] \in WorkflowNodes
  /\ now >= deadline[p]

\* except asyncio.TimeoutError: initial_state["error"] = "Workflow timeout".
\* The cancellation leaves `async with self._lock`; a request in flight is
\* left to the executor thread and may still be committed by the tracker.
Timeout(p) ==
  /\ TimeoutEnabled(p)
  /\ pc' = [pc EXCEPT ![p] = "returned"]
  /\ result' = [result EXCEPT ![p] = [InitialState EXCEPT !.error = "Workflow timeout"]]
  /\ state' = [state EXCEPT ![p] = InitialState]
  /\ LeaveCreateIssues(p, ci[p])
  /\ \E commit \in BOOLEAN :
       /\ commit => cpc[p] = "transport"
       /\ tracker' = TrackerAfter(p, commit)
  /\ UNCHANGED <<now, ncalls, nfailed, running, deadline, executed, cloneHangs>>
  /\ UNCHANGED cfgVars /\ UNCHANGED fn

\* ------------------------------------------------------------------ time

\* Somebody sleeps until a later instant.
Sleeping == \E p \in Procs : cpc[p] \in {"rl_sleep", "backoff"} /\ wake[p] > now

\* Time passes while a flow is in a sleep or waits for the lock, while a
\* clone hangs, and between the calls of a bare caller.  The code between two
\* awaits takes no time, and a call that returns does so within the second.
TakesTime(p) ==
  \/ (running[p] /\ cloneHangs[p])
  \/ cpc[p] \in {"rl_sleep", "backoff", "want"}
  \/ (pc[p] = "caller" /\ cpc[p] = "none" /\ ncalls[p] < MaxCalls)

\* One second passes.  A due timeout is served first when the loop is free.
Tick ==
  /\ (now < MaxTime /\ \E p \in Procs : TakesTime(p)) \/ Sleeping
  /\ ~ \E p \in Procs : TimeoutEnabled(p)
  /\ now' = now + 1
  /\ UNCHANGED <<sent, ncalls, nfailed, tracker>>
  /\ UNCHANGED rlVars /\ UNCHANGED callVars /\ UNCHANGED wfVars /\ UNCHANGED cfgVars /\ UNCHANGED fn

\* -------------------------------------------------------- specifications

InitCommon ==
  /\ now = 0
  /\ requests = [l \in Procs |-> <<>>]
  /\ lock = [l \in Procs |-> NoProc]
  /\ cpc = [p \in Procs |-> "none"]
  /\ attempt = [p \in Procs |-> 0]
  /\ wake = [p \in Procs |-> 0]
  /\ query = [p \in Procs |-> "ids"]
  /\ call = [p \in Procs |-> NewCall]
  /\ sent = [p \in Procs |-> [q \in QueryKinds |-> 0]]
  /\ ncalls = [p \in Procs |-> 0]
  /\ nfailed = [p \in Procs |-> 0]
  /\ running = [p \in Procs |-> FALSE]
  /\ state = [p \in Procs |-> InitialState]
  /\ result = [p \in Procs |-> InitialState]
  /\ deadline = [p \in Procs |-> 0]
  /\ executed = [p \in Procs |-> <<>>]
  /\ cloneHangs = [p \in Procs |-> FALSE]
  /\ ci = [p \in Procs |-> InitialLocals]

\* The settings an invocation runs under: the defaults of config.py, duplicate
\* checking switched off, or a small rate limit.
SettingsChoices ==
  { [CHECK_DUPLICATES |-> TRUE, GITHUB_API_MAX_REQUESTS |-> DefaultMaxRequests],
    [CHECK_DUPLICATES |-> FALSE, GITHUB_API_MAX_REQUESTS |-> DefaultMaxRequests],
    [CHECK_DUPLICATES |-> TRUE, GITHUB_API_MAX_REQUESTS |-> MaxRequests] }

\* One invocation of execute(); each invocation builds its own GitHubClient.
Init ==
  /\ InitCommon
  /\ settings \in SettingsChoices
  /\ limOf = [p \in Procs |-> p]
  /\ pc = [p \in Procs |-> IF p = 1 THEN "idle" ELSE "off"]
  /\ tracker \in InitialTrackers
  /\ fn = NoFn

Next ==
  \/ Tick
  \/ \E p \in Procs :
       \/ Start(p)
       \/ BeginNode(p)
       \/ CloneRepo(p)
       \/ Analyze(p)
       \/ BreakdownTask(p)
       \/ CreateIssues(p)
       \/ SleepDone(p)
       \/ Transport(p)
       \/ BackoffDone(p)
       \/ Timeout(p)

Spec == Init /\ [][Next]_vars

\* The event loop runs every callback that is ready, a synchronous call that
\* returns does return, and time passes: each step of an invocation that
\* stays possible is taken.
FairExecute ==
  /\ WF_vars(Tick)
  /\ \A p \in Procs :
       /\ WF_vars(Start(p))
       /\ WF_vars(BeginNode(p))
       /\ WF_vars(CloneRepo(p))
       /\ WF_vars(Analyze(p))
       /\ WF_vars(BreakdownTask(p))
       /\ WF_vars(CreateIssues(p))
       /\ WF_vars(SleepDone(p))
       /\ WF_vars(Transport(p))
       /\ WF_vars(BackoffDone(p))
       /\ WF_vars(Timeout(p))

SpecFair == Init /\ [][Next]_vars /\ FairExecute

\* Bare callers sharing one GitHubClient, hence one RateLimiter.
InitRL ==
  /\ InitCommon
  /\ settings = [CHECK_DUPLICATES |-> TRUE, GITHUB_API_MAX_REQUESTS |-> MaxRequests]
  /\ limOf = [p \in Procs |-> 1]
  /\ pc = [p \in Procs |-> "caller"]
  /\ tracker = <<>>
  /\ fn = NoFn

NextRL ==
  \/ Tick
  \/ \E p \in Procs :
       \/ CallerStart(p)
       \/ SleepDone(p)
       \/ Transport(p)
       \/ BackoffDone(p)

\* The event loop runs every ready coroutine and the clock advances.
FairRL ==
  /\ WF_vars(Tick)
  /\ \A p \in Procs :
       /\ WF_vars(CallerStart(p))
       /\ WF_vars(SleepDone(p))
       /\ WF_vars(Transport(p))
       /\ WF_vars(BackoffDone(p))

SpecRL == InitRL /\ [][NextRL]_vars /\ FairRL

\* The state a run of execute() hands to _create_issues: the repository is
\* cloned, the analysis said "not implemented", the breakdown returned subs.
BrokenDown(subs) ==
  BreakdownTaskNode(
    AnalyzeImplementation(
      CloneRepoNode(InitialState, TRUE),
      [raised |-> FALSE, is_implemented |-> FALSE, confidence |-> 85]),
    [raised |-> FALSE, subtasks |-> subs])

\* The same request submitted twice: two invocations of execute() running
\* concurrently in one process against the same project, with the same
\* breakdown, both about to enter _create_issues; each builds its own
\* GitHubClient there.  Duplicate checking is on and no transport call fails.
InitPair ==
  /\ now = 0
  /\ settings \in {c \in SettingsChoices : c.CHECK_DUPLICATES}
  /\ limOf = [p \in Procs |-> p]
  /\ requests = [l \in Procs |-> <<>>]
  /\ lock = [l \in Procs |-> NoProc]
  /\ cpc = [p \in Procs |-> "none"]
  /\ attempt = [p \in Procs |-> 0]
  /\ wake = [p \in Procs |-> 0]
  /\ query = [p \in Procs |-> "ids"]
  /\ call = [p \in Procs |-> NewCall]
  /\ sent = [p \in Procs |-> [q \in QueryKinds |-> 0]]
  /\ ncalls = [p \in Procs |-> 0]
  /\ nfailed = [p \in Procs |-> MaxFailedCalls]
  /\ running = [p \in Procs |-> FALSE]
  /\ pc = [p \in Procs |-> "create_issues"]
  /\ \E subs \in SubtaskLists : state = [p \in Procs |-> BrokenDown(subs)]
  /\ result = [p \in Procs |-> InitialState]
  /\ deadline = [p \in Procs |-> MaxTimeout]
  /\ executed = [p \in Procs |->
                   <<"clone_repo", "analyze_implementation", "breakdown_task">>]
  /\ cloneHangs = [p \in Procs |-> FALSE]
  /\ ci = [p \in Procs |-> InitialLocals]
  /\ tracker \in InitialTrackers
  /\ fn = NoFn

NextPair ==
  \/ Tick
  \/ \E p \in Procs :
       \/ CreateIssues(p)
       \/ SleepDone(p)
       \/ Transport(p)
       \/ Timeout(p)

SpecPair == InitPair /\ [][NextPair]_vars

\* ------------------------------------------------------ title_validator.py
\* Titles are sequences of characters here, so that the regular expressions
\* and the slices of the validator can be followed character by character.

LowerAlphabet ==
  <<"a", "b", "c", "d", "e", "f", "g", "h", "i", "j", "k", "l", "m",
    "n", "o", "p", "q", "r", "s", "t", "u", "v", "w", "x", "y", "z">>
UpperAlphabet ==
  <<"A", "B", "C", "D", "E", "F", "G", "H", "I", "J", "K", "L", "M",
    "N", "O", "P", "Q", "R", "S", "T", "U", "V", "W", "X", "Y", "Z">>
Digits == {"0", "1", "2", "3", "4", "5", "6", "7", "8", "9"}

\* \s of the re module, and what str.strip() removes
Whitespace == {" ", "\t", "\n", "\r", "\f"}

\* [a-z0-9\-]
ScopeChars == {LowerAlphabet[i] : i \in DOMAIN LowerAlphabet} \cup Digits \cup {"-"}

\* str.lower(), one character
LowerChar(ch) ==
  IF \E i \in DOMAIN UpperAlphabet : UpperAlphabet[i] = ch
  THEN LowerAlphabet[CHOOSE i \in DOMAIN UpperAlphabet : UpperAlphabet[i] = ch]
  ELSE ch

\* str.lower()
ToLower(s) == [i \in 1..Len(s) |-> LowerChar(s[i])]

\* s[n:]
Drop(s, n) == SubSeq(s, n + 1, Len(s))

\* s[:n], n negative counting from the end as a Python slice does
Take(s, n) ==
  IF n >= 0 THEN SubSeq(s, 1, IF n < Len(s) THEN n ELSE Len(s))
  ELSE SubSeq(s, 1, IF Len(s) + n > 0 THEN Len(s) + n ELSE 0)

StartsWith(s, w) == Len(w) <= Len(s) /\ SubSeq(s, 1, Len(w)) = w

\* w in s
Contains(s, w) ==
  \E i \in 0..(Len(s) - Len(w)) : SubSeq(s, i + 1, i + Len(w)) = w

\* any(word in s for word in words)
ContainsAny(s, words) == \E k \in DOMAIN words : Contains(s, words[k])

\* str.strip()
Strip(s) ==
  LET keep == {i \in 1..Len(s) : s[i] \notin Whitespace}
  IN  IF keep = {} THEN <<>>
      ELSE SubSeq(s, CHOOSE i \in keep : \A j \in keep : i <= j,
                     CHOOSE i \in keep : \A j \in keep : i >= j)

\* The length of the longest prefix of s made of characters of class.
RunLen(s, class) ==
  IF \E i \in 1..Len(s) : s[i] \notin class
  THEN (CHOOSE i \in 1..Len(s) :
          s[i] \notin class /\ \A j \in 1..(i - 1) : s[j] \in class) - 1
  ELSE Len(s)

\* VALID_TYPES, in the order of the alternation of the patterns
ValidTypes ==
  << <<"f", "e", "a", "t">>,
     <<"f", "i", "x">>,
     <<"d", "o", "c", "s">>,
     <<"s", "t", "y", "l", "e">>,
     <<"r", "e", "f", "a", "c", "t", "o", "r">>,
     <<"p", "e", "r", "f">>,
     <<"t", "e", "s", "t">>,
     <<"c", "h", "o", "r", "e">>,
     <<"c", "i">>,
     <<"b", "u", "i", "l", "d">> >>

MaxTitleLength == 256              \* MAX_TITLE_LENGTH = 256

\* The head common to CONVENTIONAL_PATTERN and to the pattern of
\* parse_title_components: ^(type)(\(scope\))?!?: ; rest is what follows the
\* colon.  No type is a prefix of another and neither "(" nor "!" can start
\* what follows an optional part, so the match is unique.
TitleHead(t) ==
  LET none == [ok |-> FALSE, type |-> <<>>, scope |-> <<>>, rest |-> <<>>]
      \* ":" after the type ty, the scope sc and the optional "!"
      Colon(ty, sc, r3) ==
        IF r3 # <<>> /\ r3[1] = ":"
        THEN [ok |-> TRUE, type |-> ty, scope |-> sc, rest |-> Drop(r3, 1)]
        ELSE none
      \* "!?" at the start of r2
      Bang(ty, sc, r2) ==
        Colon(ty, sc, IF r2 # <<>> /\ r2[1] = "!" THEN Drop(r2, 1) ELSE r2)
      \* "(\(scope\))?" at the start of r1, n the length of the run of
      \* scope characters after an opening parenthesis
      Scope(ty, r1, n) ==
        IF n >= 1 /\ Len(r1) >= n + 2 /\ r1[n + 2] = ")"
        THEN Bang(ty, SubSeq(r1, 2, n + 1), Drop(r1, n + 2))
        ELSE Bang(ty, <<>>, r1)
      AfterType(ty, r1) ==
        Scope(ty, r1, IF r1 # <<>> /\ r1[1] = "("
                      THEN RunLen(Drop(r1, 1), ScopeChars) ELSE 0)
      Typed(ty) == AfterType(ty, Drop(t, Len(ty)))
  IN  IF ~ \E k \in DOMAIN ValidTypes : StartsWith(t, ValidTypes[k]) THEN none
      ELSE Typed(ValidTypes[CHOOSE k \in DOMAIN ValidTypes :
                             StartsWith(t, ValidTypes[k])])

\* What `.+$` or `.{1,}$` matches when it has to match b to its end: b
\* without a final newline, provided that is not empty and holds no newline;
\* the empty sequence when there is no match.
DotPlusToEnd(b) ==
  LET d == IF b # <<>> /\ b[Len(b)] = "\n" THEN SubSeq(b, 1, Len(b) - 1) ELSE b
  IN  IF d # <<>> /\ \A i \in 1..Len(d) : d[i] # "\n" THEN d ELSE <<>>

\* The splits of r as whitespace of length k followed by a `.+$` match
TailSplits(r, least) ==
  {k \in least..Len(r) :
     /\ \A i \in 1..k : r[i] \in Whitespace
     /\ DotPlusToEnd(Drop(r, k)) # <<>>}

\* The format test made without regard to case (re.IGNORECASE): a title
\* with an upper-case type passes as it is.
IsConventionalFormat_IgnoreCase(t) ==
  /\ t # <<>>
  /\ Len(t) <= MaxTitleLength
  /\ TitleHead(ToLower(t)).ok
  /\ TailSplits(TitleHead(ToLower(t)).rest, 1) # {}

\* is_conventional_format
IsConventionalFormat(t) ==
  /\ t # <<>>
  /\ Len(t) <= MaxTitleLength
  /\ TitleHead(t).ok
  /\ TailSplits(TitleHead(t).rest, 1) # {}

\* parse_title_components; None is the empty sequence
ParseTitleComponents(t) ==
  LET \* \s* is greedy: the longest run of whitespace that leaves a match
      Parsed(h, ks) ==
        IF h.ok /\ ks # {}
        THEN [type |-> h.type, scope |-> h.scope,
              description |->
                Strip(DotPlusToEnd(Drop(h.rest,
                                        CHOOSE k \in ks : \A j \in ks : k >= j)))]
        ELSE [type |-> <<>>, scope |-> <<>>, description |-> <<>>]
      Headed(h) == Parsed(h, TailSplits(h.rest, 0))
  IN  Headed(TitleHead(t))

\* infer_type_from_description
InferTypeFromDescription(d) ==
  LET low == ToLower(d)
  IN  IF ContainsAny(low, << <<"f", "i", "x">>, <<"b", "u", "g">>, <<"e", "r", "r", "o", "r">>, <<"i", "s", "s", "u", "e">> >>)
      THEN <<"f", "i", "x">>
      ELSE IF ContainsAny(low, <<<<"d", "o", "c", "s">>,
                                 <<"d", "o", "c", "u", "m", "e", "n", "t", "a", "t", "i", "o", "n">>,
                                 <<"r", "e", "a", "d", "m", "e">>>>)
      THEN <<"d", "o", "c", "s">>
      ELSE IF ContainsAny(low, <<<<"t", "e", "s", "t">>, <<"t", "e", "s", "t", "i", "n", "g">>>>)
      THEN <<"t", "e", "s", "t">>
      ELSE IF ContainsAny(low, <<<<"r", "e", "f", "a", "c", "t", "o", "r">>,
                                 <<"c", "l", "e", "a", "n", "u", "p">>,
                                 <<"r", "e", "o", "r", "g", "a", "n", "i", "z", "e">>>>)
      THEN <<"r", "e", "f", "a", "c", "t", "o", "r">>
      ELSE IF ContainsAny(low, <<<<"p", "e", "r", "f", "o", "r", "m", "a", "n", "c", "e">>,
                                 <<"o", "p", "t", "i", "m", "i", "z", "e">>,
                                 <<"s", "p", "e", "e", "d">>>>)
      THEN <<"p", "e", "r", "f">>
      ELSE IF ContainsAny(low, <<<<"s", "t", "y", "l", "e">>, <<"f", "o", "r", "m", "a", "t">>, <<"l", "i", "n", "t">>>>)
      THEN <<"s", "t", "y", "l", "e">>
      ELSE IF ContainsAny(low, <<<<"c", "i">>, <<"p", "i", "p", "e", "l", "i", "n", "e">>,
                                 <<"d", "e", "p", "l", "o", "y">>>>)
      THEN <<"c", "i">>
      ELSE IF ContainsAny(low, <<<<"b", "u", "i", "l", "d">>, <<"c", "o", "m", "p", "i", "l", "e">>,
                                 <<"d", "e", "p", "e", "n", "d", "e", "n", "c", "y">>>>)
      THEN <<"b", "u", "i", "l", "d">>
      ELSE IF ContainsAny(low, <<<<"c", "h", "o", "r", "e">>,
                                 <<"m", "a", "i", "n", "t", "e", "n", "a", "n", "c", "e">>>>)
      THEN <<"c", "h", "o", "r", "e">>
      ELSE <<"f", "e", "a", "t">>

\* extract_scope_from_description; None is the empty sequence
ExtractScopeFromDescription(d) ==
  LET n == RunLen(d, ScopeChars)
      low == ToLower(d)
  IN  IF n >= 1 /\ Len(d) > n /\ d[n + 1] = ":" THEN SubSeq(d, 1, n)
      ELSE IF Contains(low, <<"a", "p", "i">>) THEN <<"a", "p", "i">>
      ELSE IF Contains(low, <<"u", "i">>) \/ Contains(low, <<"f", "r", "o", "n", "t", "e", "n", "d">>)
      THEN <<"u", "i">>
      ELSE IF Contains(low, <<"b", "a", "c", "k", "e", "n", "d">>)
      THEN <<"b", "a", "c", "k", "e", "n", "d">>
      ELSE IF Contains(low, <<"d", "a", "t", "a", "b", "a", "s", "e">>)
              \/ Contains(low, <<"d", "b">>)
      THEN <<"d", "b">>
      ELSE IF Contains(low, <<"a", "u", "t", "h">>) THEN <<"a", "u", "t", "h">>
      ELSE <<>>

\* re.sub(r'^' + scope + r':\s*', '', description, flags=re.IGNORECASE)
RemoveScopePrefix(scope, d) ==
  IF /\ Len(d) > Len(scope)
     /\ ToLower(SubSeq(d, 1, Len(scope))) = ToLower(scope)
     /\ d[Len(scope) + 1] = ":"
  THEN LET r == Drop(d, Len(scope) + 1)
       IN  Drop(r, RunLen(r, Whitespace))
  ELSE d

\* f"{type_}({scope}): " if scope else f"{type_}: "
TitlePrefix(type, scope) ==
  IF scope # <<>> THEN type \o <<"(">> \o scope \o <<")", ":", " ">>
  ELSE type \o <<":", " ">>

\* format_title
FormatTitleParts(type, scope, description) ==
  LET d == IF description # <<>>
           THEN <<LowerChar(description[1])>> \o Drop(description, 1) ELSE <<>>
      title == TitlePrefix(type, scope) \o d
      available == MaxTitleLength - Len(TitlePrefix(type, scope)) - 3
  IN  IF Len(title) > MaxTitleLength
      THEN TitlePrefix(type, scope) \o Take(d, available) \o <<".", ".", ".">>
      ELSE title

\* validate_and_format_title(title, auto_fix=True)
ValidateAndFormatTitle(t) ==
  IF IsConventionalFormat(t) THEN [title |-> t, was_modified |-> FALSE]
  ELSE
    LET \* c is the parsed title, scope the scope chosen for it
        Scoped(c, scope) ==
          [title |->
             FormatTitleParts(
               IF c.type # <<>> THEN c.type ELSE InferTypeFromDescription(t),
               scope,
               IF c.type # <<>> THEN c.description
               ELSE IF scope # <<>> THEN RemoveScopePrefix(scope, t)
               ELSE t),
           was_modified |-> TRUE]
        Parsed(c) ==
          Scoped(c, IF c.type # <<>> THEN c.scope ELSE ExtractScopeFromDescription(t))
    IN  Parsed(ParseTitleComponents(t))

\* ---------------------------------------------------- duplicate_checker.py
\* difflib.SequenceMatcher(None, a, b) without junk; the automatic junk
\* heuristic applies to sequences of 200 elements and more only.

\* find_longest_match: the longest block a[i..i+k-1] = b[j..j+k-1], the one
\* that starts earliest in a and then earliest in b; k = 0 when a and b have
\* no element in common.
LongestMatch(a, b) ==
  LET blocks == {m \in (1..Len(a)) \X (1..Len(b)) \X (1..Len(a)) :
                   /\ m[1] + m[3] - 1 <= Len(a)
                   /\ m[2] + m[3] - 1 <= Len(b)
                   /\ SubSeq(a, m[1], m[1] + m[3] - 1) = SubSeq(b, m[2], m[2] + m[3] - 1)}
      Better(m, n) == \/ m[3] > n[3]
                      \/ m[3] = n[3] /\ m[1] < n[1]
                      \/ m[3] = n[3] /\ m[1] = n[1] /\ m[2] <= n[2]
  IN  IF blocks = {} THEN [i |-> 1, j |-> 1, k |-> 0]
      ELSE LET best == CHOOSE m \in blocks : \A n \in blocks : Better(m, n)
           IN  [i |-> best[1], j |-> best[2], k |-> best[3]]

\* get_matching_blocks, summed: the longest match, then the same to its left
\* and to its right.
RECURSIVE MatchingChars(_, _)
MatchingChars(a, b) ==
  LET Around(m) ==
        IF m.k = 0 THEN 0
        ELSE m.k + MatchingChars(SubSeq(a, 1, m.i - 1), SubSeq(b, 1, m.j - 1))
                 + MatchingChars(Drop(a, m.i + m.k - 1), Drop(b, m.j + m.k - 1))
  IN  Around(LongestMatch(a, b))

\* calculate_similarity: ratio() = 2.0 * matches / (len(a) + len(b)), kept
\* as the fraction num / den; 1.0 for two empty strings.
Similarity(a, b) ==
  IF Len(a) + Len(b) = 0 THEN [num |-> 1, den |-> 1]
  ELSE [num |-> 2 * MatchingChars(ToLower(a), ToLower(b)), den |-> Len(a) + Len(b)]

\* x >= y on fractions
FracGeq(x, y) == x.num * y.den >= y.num * x.den

\* similarity >= threshold, the threshold in hundredths
AtThreshold(x, threshold) == FracGeq(x, [num |-> threshold, den |-> 100])

\* normalize_title: the conventional prefix removed without regard to case,
\* then lower() and strip()
NormalizeTitleChars(t) ==
  LET Stripped(low, h) ==
        IF h.ok THEN Strip(Drop(h.rest, RunLen(h.rest, Whitespace))) ELSE Strip(low)
      Lowered(low) == Stripped(low, TitleHead(low))
  IN  Lowered(ToLower(t))

MaxResults == 5                    \* max_results: int = 5

\* The loop of find_similar_issues over existing[1..n]: (issue, similarity)
\* appended for every title at or above the threshold; an issue is its index.
RECURSIVE SimilarUpTo(_, _, _, _)
SimilarUpTo(normalized, existing, threshold, n) ==
  IF n = 0 THEN <<>>
  ELSE LET rest == SimilarUpTo(normalized, existing, threshold, n - 1)
           x == Similarity(normalized, NormalizeTitleChars(existing[n]))
       IN  IF AtThreshold(x, threshold)
           THEN Append(rest, [issue |-> n, similarity |-> x])
           ELSE rest

\* find_similar_issues without its sort: the pairs stay in the order of the
\* list of existing issues.
SortBySimilarity_Unsorted(s) == s

\* similar.sort(key=lambda x: x[1], reverse=True): a stable sort, the pairs
\* of equal similarity staying in the order of the list.
RECURSIVE SortBySimilarity(_)
SortBySimilarity(s) ==
  IF s = <<>> THEN <<>>
  ELSE LET sorted == SortBySimilarity(SubSeq(s, 1, Len(s) - 1))
           x == s[Len(s)]
           k == Cardinality({i \in 1..Len(sorted) :
                               FracGeq(sorted[i].similarity, x.similarity)})
       IN  SubSeq(sorted, 1, k) \o <<x>> \o SubSeq(sorted, k + 1, Len(sorted))

\* find_similar_issues: similar[:max_results], as the indices of the issues
FindSimilar(newTitle, existing, threshold) ==
  LET Cut(similar) ==
        [r \in 1..(IF Len(similar) < MaxResults THEN Len(similar) ELSE MaxResults) |->
           similar[r].issue]
  IN  Cut(SortBySimilarity(SimilarUpTo(NormalizeTitleChars(newTitle), existing,
                                       threshold, Len(existing))))

\* check_for_duplicates: (is_duplicate, similar_issues)
CheckDuplicates(newTitle, existing, threshold) ==
  LET Flagged(similar) == [is_duplicate |-> Len(similar) > 0, similar_issues |-> similar]
  IN  Flagged(FindSimilar(newTitle, existing, threshold))

\* ------------------------------------------------------------- analyzer.py
\* read_code_intelligently assembles the code excerpts handed to the oracle.
\* A file is [path, defs]: its path relative to the repository and what
\* code_parser.extract_relevant_code returns for it, a sequence of
\* definitions [type, name, docstring, code] of character sequences.

\* str.capitalize()
Capitalize(s) ==
  [i \in 1..Len(s) |->
     IF i = 1 /\ \E k \in DOMAIN LowerAlphabet : LowerAlphabet[k] = s[1]
     THEN UpperAlphabet[CHOOSE k \in DOMAIN LowerAlphabet : LowerAlphabet[k] = s[1]]
     ELSE LowerChar(s[i])]

\* file_path.suffix == ".py"
IsPython(path) ==
  Len(path) > 3 /\ SubSeq(path, Len(path) - 2, Len(path)) = <<".", "p", "y">>

\* header = f"## File: {relative_path} - {def_type.capitalize()}: {def_name}"
\* if docstring: header += f"\n**Description**: {docstring[:200]}..."
ExcerptHeader(path, d) ==
  <<"#", "#", " ", "F", "i", "l", "e", ":", " ">> \o path \o <<" ", "-", " ">>
    \o Capitalize(d.type) \o <<":", " ">> \o d.name
    \o (IF d.docstring # <<>>
        THEN <<"\n", "*", "*", "D", "e", "s", "c", "r", "i", "p", "t", "i", "o", "n",
               "*", "*", ":", " ">> \o Take(d.docstring, 200) \o <<".", ".", ".">>
        ELSE <<>>)

\* The three backquotes that open and close a block of code; a string of
\* this language cannot hold a backquote, so an apostrophe stands for each.
Fence == <<"'", "'", "'">>

\* f"{header}\n```python\n{code}\n```\n"
ExcerptPart(path, d) ==
  ExcerptHeader(path, d)
    \o <<"\n">> \o Fence \o <<"p", "y", "t", "h", "o", "n", "\n">>
    \o d.code \o <<"\n">> \o Fence \o <<"\n">>

\* the three locals of the loop
NoExcerpts == [content_parts |-> <<>>, total_chars |-> 0, function_count |-> 0]

\* for definition in definitions: ... , from the i-th definition on
RECURSIVE DefinitionsLoop(_, _, _, _, _, _)
DefinitionsLoop(path, defs, i, acc, max_functions, max_chars) ==
  IF i > Len(defs) THEN acc
  ELSE IF acc.function_count >= max_functions THEN acc
  ELSE IF acc.total_chars + Len(defs[i].code) > max_chars THEN acc
  ELSE DefinitionsLoop(path, defs, i + 1,
         [content_parts |-> Append(acc.content_parts, ExcerptPart(path, defs[i])),
          total_chars |-> acc.total_chars + Len(defs[i].code),
          function_count |-> acc.function_count + 1],
         max_functions, max_chars)

\* for file_path in relevant_files: ... , from the j-th file on
RECURSIVE FilesLoop(_, _, _, _, _)
FilesLoop(files, j, acc, max_functions, max_chars) ==
  IF j > Len(files) THEN acc
  ELSE IF ~IsPython(files[j].path) \/ files[j].defs = <<>>
  THEN FilesLoop(files, j + 1, acc, max_functions, max_chars)
  ELSE LET after == DefinitionsLoop(files[j].path, files[j].defs, 1, acc,
                                    max_functions, max_chars)
       IN  IF after.function_count >= max_functions \/ after.total_chars >= max_chars
           THEN after
           ELSE FilesLoop(files, j + 1, after, max_functions, max_chars)

\* "\n".join(parts)
RECURSIVE JoinLines(_)
JoinLines(parts) ==
  IF parts = <<>> THEN <<>>
  ELSE IF Len(parts) = 1 THEN parts[1]
  ELSE parts[1] \o <<"\n">> \o JoinLines(Tail(parts))

NoRelevantCodeFound ==
  <<"N", "o", " ", "r", "e", "l", "e", "v", "a", "n", "t", " ", "c", "o", "d", "e", " ",
    "f", "o", "u", "n", "d", ".">>

\* read_code_intelligently(keywords, max_functions, max_chars), relevant_files
\* being what the search for the keywords found; the text it returns and the
\* number of definitions in it
ReadCodeIntelligently(relevant_files, max_functions, max_chars) ==
  LET acc == FilesLoop(relevant_files, 1, NoExcerpts, max_functions, max_chars)
  IN  [text |-> IF acc.content_parts = <<>> THEN NoRelevantCodeFound
                ELSE JoinLines(acc.content_parts),
       definitions |-> Len(acc.content_parts),
       total_chars |-> acc.total_chars]

\* -------------------------------------------------------- gemini_client.py
\* The text of an oracle response is followed as far as the parsers look at
\* it: whether re.search finds a ```json block, and the document json.loads
\* reads, from the block if there is one and from the whole text otherwise
\* (a text holding such a block is not itself JSON: the line break after
\* ```json cannot stand inside a JSON string).  A document is not JSON at
\* all ("invalid"), an array, a string, a number, null, or an object with the
\* keys `keys` and their values.

NoSubtasksValue == [kind |-> "list", items |-> <<>>]

Document(kind, keys, is_implemented, confidence, subtasks) ==
  [kind |-> kind, keys |-> keys, is_implemented |-> is_implemented,
   confidence |-> confidence, subtasks |-> subtasks]

NotAnObject(kind) == Document(kind, {}, FALSE, 0, NoSubtasksValue)

\* the dict _parse_analysis_response returns when nothing could be parsed
ParseFailed ==
  Document("object", {"is_implemented", "confidence"}, FALSE, 0, NoSubtasksValue)

\* json.loads raises JSONDecodeError
JSONDecodeError(doc) == doc.kind = "invalid"

\* _parse_analysis_response(response.text)
ParseAnalysisResponse(r) ==
  IF r.fenced /\ ~JSONDecodeError(r.json) THEN r.json
  ELSE IF ~r.fenced /\ ~JSONDecodeError(r.json) THEN r.json
  ELSE ParseFailed

\* result[key] raises: TypeError unless result is a dict, KeyError if the
\* key is missing
SubscriptRaises(doc, key) == doc.kind # "object" \/ key \notin doc.keys

\* analyze_code after generate_content returned r, and the same subscripts
\* in analyze_implementation_status: what _analyze_implementation receives
AnalyzeCode(r) ==
  LET parsed == ParseAnalysisResponse(r)
  IN  IF SubscriptRaises(parsed, "is_implemented") \/ SubscriptRaises(parsed, "confidence")
      THEN [raised |-> TRUE, is_implemented |-> FALSE, confidence |-> 0]
      ELSE [raised |-> FALSE, is_implemented |-> parsed.is_implemented,
            confidence |-> parsed.confidence]

\* data.get("subtasks", []); AttributeError unless data is a dict
GetSubtasks(data) ==
  IF data.kind # "object" THEN [raised |-> TRUE, value |-> NoSubtasksValue]
  ELSE IF "subtasks" \in data.keys THEN [raised |-> FALSE, value |-> data.subtasks]
  ELSE [raised |-> FALSE, value |-> NoSubtasksValue]

\* _parse_subtasks_response(response.text)
ParseSubtasksResponse(r) ==
  IF r.fenced /\ ~JSONDecodeError(r.json) THEN GetSubtasks(r.json)
  ELSE IF ~r.fenced /\ ~JSONDecodeError(r.json) THEN GetSubtasks(r.json)
  ELSE [raised |-> FALSE, value |-> NoSubtasksValue]

\* break_down_task after generate_content returned r, and break_down:
\* len(subtasks) raises TypeError on null, subtask.get raises AttributeError
\* on an item that is not a dict; what _breakdown_task receives
BreakDownTask(r) ==
  LET parsed == ParseSubtasksResponse(r)
  IN  IF parsed.raised \/ parsed.value.kind # "list"
      THEN [raised |-> TRUE, subtasks |-> <<>>]
      ELSE [raised |-> FALSE, subtasks |-> parsed.value.items]

\* --------------------------------------------------------------- cloner.py
\* A URL is a sequence of characters.  A commit is [repo, branch, n]: the
\* n-th state of a branch of the repository at a URL.  A directory under
\* clone_dir is absent or a shallow single-branch clone: its origin, the
\* branch it was cloned with (the only one `git fetch` updates), the commit
\* of refs/remotes/origin/<branch>, the commit of the work tree, and whether
\* the work tree holds local modifications.

\* s.rstrip("/")
RStripSlash(s) ==
  IF \A i \in 1..Len(s) : s[i] = "/" THEN <<>>
  ELSE SubSeq(s, 1, CHOOSE i \in 1..Len(s) :
                      s[i] # "/" /\ \A j \in (i + 1)..Len(s) : s[j] = "/")

\* s.split("/")[-1]
LastSegment(s) ==
  IF \A i \in 1..Len(s) : s[i] # "/" THEN s
  ELSE Drop(s, CHOOSE i \in 1..Len(s) :
                 s[i] = "/" /\ \A j \in (i + 1)..Len(s) : s[j] # "/")

\* s.replace(".git", ""): every occurrence, from the left
RECURSIVE RemoveDotGit(_)
RemoveDotGit(s) ==
  IF s = <<>> THEN <<>>
  ELSE IF StartsWith(s, <<".", "g", "i", "t">>) THEN RemoveDotGit(Drop(s, 4))
  ELSE <<s[1]>> \o RemoveDotGit(Drop(s, 1))

\* repo_name = repo_url.rstrip("/").split("/")[-1].replace(".git", "")
RepoName(repo_url) == RemoveDotGit(LastSegment(RStripSlash(repo_url)))

NoCommit == [repo |-> <<>>, branch |-> "", n |-> 0]
NoDir ==
  [exists |-> FALSE, origin |-> <<>>, branch |-> "", tracking |-> NoCommit,
   head |-> NoCommit, dirty |-> FALSE]

\* Repo.clone_from(repo_url, repo_path, depth=..., branch=branch) succeeded
ClonedFrom(repo_url, branch, tip) ==
  [exists |-> TRUE, origin |-> repo_url, branch |-> branch,
   tracking |-> [repo |-> repo_url, branch |-> branch, n |-> tip],
   head |-> [repo |-> repo_url, branch |-> branch, n |-> tip], dirty |-> FALSE]

\* origin.fetch() succeeded: the branch of the clone is fetched from the
\* remote the directory names as its origin; tips[u][b] is the remote state
Fetched(dir, tips) ==
  [dir EXCEPT !.tracking = [repo |-> dir.origin, branch |-> dir.branch,
                            n |-> tips[dir.origin][dir.branch]]]

\* repo.git.reset("--hard", f"origin/{branch}") fails: no such ref
ResetFails(dir, branch) == branch # dir.branch

\* repo.git.reset("--hard", f"origin/{branch}") succeeded
HardReset(dir) == [dir EXCEPT !.head = dir.tracking, !.dirty = FALSE]

\* clone_or_update(repo_url, branch) on the directory dir, the network
\* answering (up) or not: the directory afterwards and whether the call
\* returned repo_path (ok) or raised
CloneOrUpdate(dir, repo_url, branch, tips, up) ==
  IF dir.exists
  THEN IF ~up THEN [dir |-> dir, ok |-> FALSE]
       ELSE IF ResetFails(Fetched(dir, tips), branch)
       THEN [dir |-> Fetched(dir, tips), ok |-> FALSE]
       ELSE [dir |-> HardReset(Fetched(dir, tips)), ok |-> TRUE]
  ELSE IF ~up THEN [dir |-> dir, ok |-> FALSE]
       ELSE [dir |-> ClonedFrom(repo_url, branch, tips[repo_url][branch]), ok |-> TRUE]

\* ---------------------------------------------- helper functions on trial

\* Every variable of the program; a helper function touches none of them.
progVars == <<now, settings, limOf, requests, lock, cpc, attempt, wake,
              query, call, sent, ncalls, nfailed, pc, running, state, result,
              deadline, executed, cloneHangs, ci, tracker>>

\* No flow runs: only the function on trial is applied.
InitFn ==
  /\ InitCommon
  /\ settings = [CHECK_DUPLICATES |-> TRUE, GITHUB_API_MAX_REQUESTS |-> DefaultMaxRequests]
  /\ limOf = [p \in Procs |-> p]
  /\ pc = [p \in Procs |-> "off"]
  /\ tracker = <<>>

\* ch repeated n times
Repeat(ch, n) == [i \in 1..n |-> ch]

\* The titles given to validate_and_format_title: every title of at most
\* MaxTitleLen characters over TitleChars (which spell the type "ci", a
\* scope, the separators, an upper-case letter and a line break), the two
\* titles of the scenarios, and titles longer than MAX_TITLE_LENGTH.
TitleChars == {"c", "i", ":", " ", "(", ")", "X", "\n"}
AddLoginPage == <<"a", "d", "d", " ", "l", "o", "g", "i", "n", " ", "p", "a", "g", "e">>
FeatApiAddEndpoint ==
  <<"F", "e", "a", "t", "(", "a", "p", "i", ")", ":", " ", "A", "d", "d", " ", "E", "n", "d", "p", "o", "i", "n", "t">>
LongTitles ==
  { Repeat("a", LongLen),
    Repeat("a", LongLen) \o <<":", " ", "x">>,
    <<"f", "i", "x", "(">> \o Repeat("a", LongLen) \o <<")", ":", "x">>,
    <<"f", "i", "x", ":", " ">> \o Repeat("a", LongLen),
    <<"f", "i", "x", ":">> \o Repeat("a", LongLen) }
Titles ==
  UNION {[1..n -> TitleChars] : n \in 0..MaxTitleLen}
    \cup {AddLoginPage, FeatApiAddEndpoint} \cup LongTitles

NoResult == [title |-> <<>>, was_modified |-> FALSE]

InitTitle ==
  /\ InitFn
  /\ fn \in {[op |-> "title", arg |-> t, n |-> 0,
              first |-> NoResult, second |-> NoResult] : t \in Titles}

\* formatted_title, was_modified = validate_and_format_title(subtask["title"])
ValidateTitle ==
  /\ fn.op = "title"
  /\ fn.n = 0
  /\ fn' = [fn EXCEPT !.n = 1, !.first = ValidateAndFormatTitle(fn.arg)]
  /\ UNCHANGED progVars

\* validate_and_format_title applied to the title it returned
ValidateAgain ==
  /\ fn.op = "title"
  /\ fn.n = 1
  /\ fn' = [fn EXCEPT !.n = 2, !.second = ValidateAndFormatTitle(fn.first.title)]
  /\ UNCHANGED progVars

NextTitle == ValidateTitle \/ ValidateAgain

SpecTitle == InitTitle /\ [][NextTitle]_vars

\* The calls of check_for_duplicates on trial: a new title against every
\* list of at most MaxExisting titles of DupPool, whose normalized titles
\* are equal to the new one, close to it, or far from it, at the configured
\* threshold and at a lower one; and the call of the scenario.
DupPool ==
  { <<"f", "i", "x", ":", " ", "A", "B", "C", "D">>,
    <<"a", "b", "c", "d", "e">>,
    <<"a", "b">> }
NewTitles == {<<"a", "b", "c", "d">>, <<"c", "i", "(", "x", ")", ":", " ", "a", "b", "c">>}
ScenarioNew ==
  <<"f", "e", "a", "t", "(", "a", "u", "t", "h", ")", ":", " ", "a", "d", "d", " ", "l", "o", "g", "i", "n", " ", "f", "l", "o", "w">>
ScenarioExisting ==
  << <<"f", "e", "a", "t", "(", "a", "u", "t", "h", ")", ":", " ", "a", "d", "d", " ", "l", "o", "g", "i", "n">>,
     <<"f", "i", "x", "(", "d", "b", ")", ":", " ", "t", "i", "m", "e", "o", "u", "t">> >>
DupCalls ==
  {[new |-> t, existing |-> e, threshold |-> th] :
     t \in NewTitles,
     e \in UNION {[1..n -> DupPool] : n \in 0..MaxExisting},
     th \in {DuplicateThreshold, DuplicateThreshold - 20}}
    \cup {[new |-> ScenarioNew, existing |-> ScenarioExisting,
           threshold |-> DuplicateThreshold]}

InitDup ==
  /\ InitFn
  /\ fn \in {[op |-> "similar", arg |-> c, n |-> 0,
              out |-> [is_duplicate |-> FALSE, similar_issues |-> <<>>]] :
             c \in DupCalls}

\* is_duplicate, similar_issues = check_for_duplicates(title, filtered_issues,
\*                                                     threshold=...)
CheckForDuplicatesCall ==
  /\ fn.op = "similar"
  /\ fn.n = 0
  /\ fn' = [fn EXCEPT !.n = 1,
                      !.out = CheckDuplicates(fn.arg.new, fn.arg.existing,
                                              fn.arg.threshold)]
  /\ UNCHANGED progVars

NextDup == CheckForDuplicatesCall

SpecDup == InitDup /\ [][NextDup]_vars

\* The calls of read_code_intelligently on trial: every list of at most
\* MaxFiles files of FilePool (two definitions, one with a docstring; a
\* docstring longer than the 200 characters kept; a file that is not Python;
\* a file without a relevant definition), every max_functions up to
\* MaxFunctions and every max_chars up to MaxChars.
Function == <<"f", "u", "n", "c", "t", "i", "o", "n">>
Class == <<"c", "l", "a", "s", "s">>
FilePool ==
  { [path |-> <<"a", ".", "p", "y">>,
     defs |-> << [type |-> Function, name |-> <<"f">>, docstring |-> <<>>,
                  code |-> <<"x", "x">>],
                 [type |-> Class, name |-> <<"C">>, docstring |-> <<"d">>,
                  code |-> <<"y", "y", "y">>] >>],
    [path |-> <<"b", ".", "p", "y">>,
     defs |-> << [type |-> Function, name |-> <<"g">>,
                  docstring |-> Repeat("d", 201), code |-> <<"z">>] >>],
    [path |-> <<"c", ".", "m", "d">>,
     defs |-> << [type |-> Function, name |-> <<"h">>, docstring |-> <<>>,
                  code |-> <<"w">>] >>],
    [path |-> <<"d", ".", "p", "y">>, defs |-> <<>>] }
ExcerptCalls ==
  {[relevant_files |-> fs, max_functions |-> mf, max_chars |-> mc] :
     fs \in UNION {[1..n -> FilePool] : n \in 0..MaxFiles},
     mf \in 0..MaxFunctions, mc \in 0..MaxChars}

InitExcerpt ==
  /\ InitFn
  /\ fn \in {[op |-> "excerpt", arg |-> c, n |-> 0,
              out |-> [text |-> <<>>, definitions |-> 0, total_chars |-> 0]] :
             c \in ExcerptCalls}

\* code_content = analyzer.read_code_intelligently(keywords, max_functions=...,
\*                                                 max_chars=...)
ReadCodeCall ==
  /\ fn.op = "excerpt"
  /\ fn.n = 0
  /\ fn' = [fn EXCEPT !.n = 1,
                      !.out = ReadCodeIntelligently(fn.arg.relevant_files,
                                                    fn.arg.max_functions,
                                                    fn.arg.max_chars)]
  /\ UNCHANGED progVars

NextExcerpt == ReadCodeCall

SpecExcerpt == InitExcerpt /\ [][NextExcerpt]_vars

\* The oracle responses on trial, with and without a ```json block: for the
\* analysis, every kind of document and every object with or without each
\* of is_implemented and confidence; for the decomposition, every kind of
\* document and every object without subtasks or with subtasks being a list
\* of subtasks, null, or a list of numbers.
NonObjects == {NotAnObject(k) : k \in {"invalid", "array", "string", "number", "null"}}
AnalysisDocuments ==
  NonObjects
    \cup {Document("object", keys, ("is_implemented" \in keys) /\ v.is_implemented,
                   IF "confidence" \in keys THEN v.confidence ELSE 0, NoSubtasksValue) :
            keys \in SUBSET {"is_implemented", "confidence"}, v \in AnalysisVerdicts}
SubtasksDocuments ==
  NonObjects
    \cup {Document("object", {}, FALSE, 0, NoSubtasksValue)}
    \cup {Document("object", {"subtasks"}, FALSE, 0, [kind |-> "list", items |-> subs]) :
            subs \in SubtaskLists}
    \cup {Document("object", {"subtasks"}, FALSE, 0, [kind |-> k, items |-> <<>>]) :
            k \in {"null", "numbers"}}
Responses(docs) == {[fenced |-> f, json |-> d] : f \in BOOLEAN, d \in docs}

\* the WorkflowState the two nodes receive: the repository is cloned
ClonedState == CloneRepoNode(InitialState, TRUE)

InitOracle ==
  /\ InitFn
  /\ fn \in {[op |-> "analysis", arg |-> r, n |-> 0,
              out |-> [state |-> ClonedState, next |-> "analyze_implementation"]] :
             r \in Responses(AnalysisDocuments)}
        \cup
            {[op |-> "breakdown", arg |-> r, n |-> 0,
              out |-> [state |-> ClonedState, next |-> "breakdown_task"]] :
             r \in Responses(SubtasksDocuments)}

\* _analyze_implementation when the oracle answers fn.arg, and the edge
\* _should_create_tasks chooses
AnalyzeResponse ==
  /\ fn.op = "analysis"
  /\ fn.n = 0
  /\ LET s == AnalyzeImplementation(fn.out.state, AnalyzeCode(fn.arg))
     IN  fn' = [fn EXCEPT !.n = 1,
                          !.out = [state |-> s,
                                   next |-> IF ShouldCreateTasks(s) = "skip" THEN "END"
                                            ELSE "breakdown_task"]]
  /\ UNCHANGED progVars

\* _breakdown_task when the oracle answers fn.arg to the decomposition
BreakdownResponse ==
  /\ fn.op = "breakdown"
  /\ fn.n = 0
  /\ fn' = [fn EXCEPT !.n = 1,
                      !.out = [state |-> BreakdownTaskNode(fn.out.state, BreakDownTask(fn.arg)),
                               next |-> "create_issues"]]
  /\ UNCHANGED progVars

NextOracle == AnalyzeResponse \/ BreakdownResponse

SpecOracle == InitOracle /\ [][NextOracle]_vars

\* The cloner on trial: the remotes of RepoUrls (two of them end in the same
\* path segment) with the branches of Branches, whose tips move up to
\* MaxPush; the directories under clone_dir, all absent at first; calls of
\* clone_or_update for every URL and branch, and edits of a work tree.
RepoUrls ==
  { <<"g", "h", "/", "a", "/", "a", "p", "p">>,
    <<"g", "h", "/", "b", "/", "a", "p", "p", ".", "g", "i", "t", "/">>,
    <<"g", "h", "/", "a", "/", "l", "i", "b">> }
Branches == {"main", "dev"}
RepoNames == {RepoName(u) : u \in RepoUrls}
NoCloneCall == [repo_url |-> <<>>, branch |-> "", ok |-> FALSE, path |-> <<>>, tip |-> 0]

InitClone ==
  /\ InitFn
  /\ fn = [op |-> "clone",
           tips |-> [u \in RepoUrls |-> [b \in Branches |-> 0]],
           dirs |-> [d \in RepoNames |-> NoDir],
           last |-> NoCloneCall]

\* somebody pushes to the main branch of a remote
Push ==
  /\ fn.op = "clone"
  /\ \E u \in RepoUrls :
       /\ fn.tips[u]["main"] < MaxPush
       /\ fn' = [fn EXCEPT !.tips[u]["main"] = @ + 1, !.last = NoCloneCall]
  /\ UNCHANGED progVars

\* a file of a work tree is modified
EditWorkTree ==
  /\ fn.op = "clone"
  /\ \E d \in RepoNames :
       /\ fn.dirs[d].exists
       /\ ~fn.dirs[d].dirty
       /\ fn' = [fn EXCEPT !.dirs[d].dirty = TRUE, !.last = NoCloneCall]
  /\ UNCHANGED progVars

\* repo_path = await self.cloner.clone_or_update(repo_url, branch)
CloneOrUpdateCall ==
  /\ fn.op = "clone"
  /\ \E u \in RepoUrls, b \in Branches, up \in BOOLEAN :
       LET r == CloneOrUpdate(fn.dirs[RepoName(u)], u, b, fn.tips, up)
       IN  fn' = [fn EXCEPT !.dirs[RepoName(u)] = r.dir,
                            !.last = [repo_url |-> u, branch |-> b, ok |-> r.ok,
                                      path |-> RepoName(u), tip |-> fn.tips[u][b]]]
  /\ UNCHANGED progVars

NextClone == Push \/ EditWorkTree \/ CloneOrUpdateCall

SpecClone == InitClone /\ [][NextClone]_vars

\* ---------------------------------------------------------------- claims

\* C1: on one limiter, the window never holds more than max_requests
\* unexpired timestamps (unexpired as get_remaining counts them: not older
\* than window_seconds), whatever the sequence and interleaving of acquire()
\* calls, the instant at which the oldest entry expires included.
C1_WindowNeverOverfull ==
  \A p \in Procs :
    Cardinality(ValidRequests(requests[limOf[p]], now))
      <= settings.GITHUB_API_MAX_REQUESTS

\* C2: a caller of acquire() that found the window full and sleeps is
\* eventually admitted (its timestamp appended, its request sent).
C2_SleeperEventuallyAdmitted ==
  \A p \in Procs : (cpc[p] = "rl_sleep") ~> (cpc[p] = "transport")

\* C3: once the budget of execute() is over, the invocation has returned,
\* whichever step was in progress; a clone that never returns included.
C3_ReturnedOnceBudgetOver ==
  \A p \in Procs :
    (deadline[p] > 0 /\ now > deadline[p]) => pc[p] = "returned"

\* C4: after a failed clone (the state carries the clone error) no node other
\* than clone_repo has been started in the invocation.
C4_CloneFailureEndsWorkflow ==
  \A p \in Procs :
    state[p].error = "Clone failed" => executed[p] = <<"clone_repo">>

\* The tracker items invocation p created.
ItemsBy(p) == {n \in 1..Len(tracker) : tracker[n].by = p}

\* execute() of p returned the timeout state.
TimedOut(p) == pc[p] = "returned" /\ result[p].error = "Workflow timeout"

\* The graph of p is in _create_issues or ran to END.
InOrPastCreateIssues(p) ==
  \/ pc[p] = "create_issues"
  \/ (pc[p] = "returned" /\ ~TimedOut(p))

C6_BreakdownFailure ==
  /\ [][\A p \in Procs :
          (/\ pc[p] = "breakdown_task" /\ running[p] /\ ~running'[p]
           /\ state'[p].error # "")
          => /\ state'[p].error = "Breakdown failed"
             /\ state'[p].subtasks = <<>>
             /\ pc'[p] = "create_issues"]_vars
  /\ [](\A p \in Procs :
          /\ state[p].error = "Breakdown failed"
               => pc[p] \in {"create_issues", "returned"}
          /\ (InOrPastCreateIssues(p) /\ state[p].subtasks = <<>>)
               => (ItemsBy(p) = {} /\ sent[p]["create"] = 0))

\* A failed breakdown was followed by a complete run of create_issues.
C6_Witness ==
  /\ pc[1] = "returned"
  /\ result[1].error = "Breakdown failed"
  /\ executed[1] = <<"clone_repo", "analyze_implementation", "breakdown_task",
                     "create_issues">>
  /\ sent[1]["fields"] > 0

\* C7: when the ids, items or fields query of _create_issues fails, the
\* invocation ends with the issue-creation error and has sent no create-issue
\* call and created no item.
C7_PrefetchFailure ==
  \A p \in Procs :
    ci[p].raisedAt \in {"ids", "items", "fields"}
    => /\ pc[p] = "returned"
       /\ result[p].error = "Issue creation failed"
       /\ sent[p]["create"] = 0
       /\ ItemsBy(p) = {}

\* The items query failed in an invocation that had subtasks to write.
C7_Witness ==
  /\ ci[1].raisedAt = "items"
  /\ Len(result[1].subtasks) > 0

\* C8 as stated: after a failure on subtask i the loop still reaches the
\* subtasks after it.
C8_LoopGoesOnAfterFailure ==
  \A p \in Procs :
    (pc[p] = "returned" /\ ci[p].failed > 0)
    => ci[p].i >= Len(result[p].subtasks)

\* C8 amended: a failure on subtask i ends the loop: the invocation returns
\* with the issue-creation error and no item exists for a subtask after i.
C8_FailureEndsLoop ==
  \A p \in Procs :
    ci[p].failed > 0
    => /\ pc[p] = "returned"
       /\ result[p].error = "Issue creation failed"
       /\ \A n \in ItemsBy(p) : tracker[n].sub <= ci[p].i

\* Subtask 1 of 2 failed in its board add, after its issue was created.
C8_Witness ==
  /\ ci[1].failed > 0
  /\ ci[1].raisedAt = "add"
  /\ ci[1].i < Len(result[1].subtasks)

\* C9: an invocation that ends with the issue-creation error returns the
\* created items accumulated before the error.
C9_PartialListReturned ==
  \A p \in Procs :
    (pc[p] = "returned" /\ result[p].error = "Issue creation failed")
    => result[p].created_issues = ci[p].created_issues

\* C10 as stated: a run creates at most len(subtasks) tracker items, and on
\* success exactly len(subtasks) - skipped - failed.
C10_AtMostOneItemPerSubtask ==
  \A p \in Procs :
    InOrPastCreateIssues(p)
    => /\ Cardinality(ItemsBy(p)) <= Len(state[p].subtasks)
       /\ (pc[p] = "returned" /\ result[p].error # "Issue creation failed")
            => Cardinality(ItemsBy(p)) =
                 Len(result[p].subtasks) - ci[p].skipped - ci[p].failed

\* C10 amended: a run reports at most len(subtasks) created items and, on
\* success, exactly len(subtasks) - skipped, no subtask having failed; the
\* tracker holds at least the reported items and at most max_retries items
\* per subtask, a create-issue call whose response is lost being retried.
C10_ItemsPerRun ==
  \A p \in Procs :
    InOrPastCreateIssues(p)
    => /\ Len(ci[p].created_issues) <= Len(state[p].subtasks)
       /\ Cardinality(ItemsBy(p)) <= MaxRetries * Len(state[p].subtasks)
       /\ Cardinality(ItemsBy(p)) >= Len(ci[p].created_issues)
       /\ (pc[p] = "returned" /\ result[p].error # "Issue creation failed")
            => /\ ci[p].failed = 0
               /\ Len(result[p].created_issues) =
                    Len(result[p].subtasks) - ci[p].skipped

\* A successful run over two subtasks skipped one as a duplicate, reported
\* one item, and left two items in the tracker.
C10_Witness ==
  /\ pc[1] = "returned"
  /\ result[1].error = ""
  /\ Len(result[1].subtasks) = 2
  /\ ci[1].skipped = 1
  /\ Len(result[1].created_issues) = 1
  /\ Cardinality(ItemsBy(1)) = 2

\* Subtask j of p has a title that matches, normalized, a title of the
\* snapshot p pre-fetched, at or above the threshold.
MatchesSnapshot(p, j) ==
  LET t == state[p].subtasks[j].title
  IN  /\ t # NoTitle
      /\ \E e \in ci[p].filtered :
            CalculateSimilarity(NormalizeTitle(FormatTitle(t)), NormalizeTitle(e))
              >= DuplicateThreshold

\* C11: with duplicate checking enabled, a subtask the loop has reached whose
\* normalized title matches an item of the pre-fetched snapshot at or above
\* the threshold is skipped entirely: no call of the loop is ever in flight for
\* it, no item of the tracker was created for it, no entry of created_issues
\* refers to it, and the loop has gone on past it (or finished).
C11_DuplicateSkipped ==
  \A p \in Procs :
    (settings.CHECK_DUPLICATES /\ pc[p] \in {"create_issues", "returned"}) =>
      \A j \in 1..Len(state[p].subtasks) :
        (j <= ci[p].i /\ MatchesSnapshot(p, j)) =>
          /\ \A n \in ItemsBy(p) : tracker[n].sub # j
          /\ \A k \in 1..Len(ci[p].created_issues) :
                tracker[ci[p].created_issues[k].url].sub # j
          /\ (cpc[p] # "none" /\ query[p] \in LoopQueries) => ci[p].i # j
          /\ (pc[p] = "create_issues" /\ query[p] \in LoopQueries) => ci[p].i > j

\* The first subtask was skipped as a duplicate and the loop went on to create
\* the item of the second.
C11_Witness ==
  /\ settings.CHECK_DUPLICATES
  /\ pc[1] = "create_issues"
  /\ Len(state[1].subtasks) = 2
  /\ MatchesSnapshot(1, 1)
  /\ ci[1].i = 2
  /\ ci[1].skipped = 1
  /\ \E n \in ItemsBy(1) : tracker[n].sub = 2

\* Item m was in the project, open, when item n was created: it is older, on
\* the board, and either another run's or an earlier subtask's of the same run
\* (whose add-to-project call had returned before the loop went on).
ExistedAtCreation(m, n) ==
  /\ m < n
  /\ tracker[m].state = "OPEN"
  /\ tracker[m].onBoard
  /\ (tracker[m].by # tracker[n].by \/ tracker[m].sub < tracker[n].sub)

\* C12: with duplicate checking enabled, no item is created whose title is at
\* or above the similarity threshold to an item that existed in the project at
\* the moment of creation, items created earlier in the same run included.
C12_NoDuplicateCreated ==
  settings.CHECK_DUPLICATES =>
    \A p \in Procs : \A n \in ItemsBy(p) : \A m \in 1..Len(tracker) :
      ExistedAtCreation(m, n) =>
        CalculateSimilarity(NormalizeTitle(tracker[n].title),
                            NormalizeTitle(tracker[m].title)) < DuplicateThreshold

\* base_delay * (2^0 + ... + 2^(k-1))
RECURSIVE SumOfDelays(_)
SumOfDelays(k) == IF k = 0 THEN 0 ELSE SumOfDelays(k - 1) + BaseDelay * (2 ^ (k - 1))

\* C13: a wrapped call that failed k < max_retries times and then succeeded
\* returned after exactly k+1 attempts and base_delay*(2^0+...+2^(k-1)) seconds
\* of sleep, and the sleep after the failure of attempt i lasts base_delay*2^i.
C13_SuccessAfterFailures ==
  /\ [](\A p \in Procs :
          call[p].outcome = "ok" =>
            /\ attempt[p] < MaxRetries
            /\ call[p].attempts = attempt[p] + 1
            /\ call[p].slept = SumOfDelays(attempt[p]))
  /\ [][\A p \in Procs :
          (cpc[p] = "transport" /\ cpc'[p] = "backoff") =>
            /\ wake'[p] - now = BaseDelay * (2 ^ attempt[p])
            /\ call'[p].slept - call[p].slept = BaseDelay * (2 ^ attempt[p])]_vars

\* A call that succeeded on its third attempt, after sleeps of 1 and 2 seconds.
C13_Witness ==
  /\ call[1].outcome = "ok"
  /\ call[1].attempts = 3
  /\ call[1].slept = 3

\* C14: a wrapped call whose every attempt failed raised after exactly
\* max_retries attempts, whatever the kinds of the failures, with the error of
\* its last attempt, and the wrapper did not sleep after the last attempt: it
\* slept after the max_retries - 1 earlier ones only and is not sleeping now.
C14_AlwaysFailing ==
  /\ [](\A p \in Procs :
          Raised(call[p].outcome) =>
            /\ call[p].attempts = MaxRetries
            /\ call[p].slept = SumOfDelays(MaxRetries - 1)
            /\ cpc[p] = "none"
            /\ wake[p] = 0)
  /\ [][\A p \in Procs :
          (pc[p] = "caller" /\ cpc[p] = "transport" /\ cpc'[p] # "transport") =>
            \/ cpc'[p] = "backoff" /\ attempt[p] < MaxRetries - 1
                  /\ call'[p].outcome = "none"
            \/ cpc'[p] = "none" /\ call'[p].outcome = "ok"
            \/ cpc'[p] = "none" /\ attempt[p] = MaxRetries - 1
                  /\ Raised(call'[p].outcome)]_vars

\* A call that raised the GraphQL error of its third attempt.
C14_Witness ==
  /\ call[1].outcome = "errors"
  /\ call[1].attempts = MaxRetries
  /\ cpc[1] = "none"

\* C15 as stated: acquire() is called once per call, before the retry loop, so
\* a call is admitted at most once however many attempts it makes.
C15_AdmittedOncePerCall ==
  \A p \in Procs : call[p].admitted <= 1

\* C15, amended: the retry wrapper is the outer layer and every attempt runs
\* acquire() and then the transport call: an attempt in transport or backing
\* off has been admitted once per attempt made so far, and an attempt waiting
\* in acquire() is one admission short.
C15_AcquireInsideRetry ==
  \A p \in Procs :
    /\ cpc[p] \in {"transport", "backoff"} => call[p].admitted = attempt[p] + 1
    /\ cpc[p] \in {"rl_sleep", "want"} => call[p].admitted = attempt[p]
    /\ cpc[p] = "transport" => call[p].attempts = attempt[p]
    /\ cpc[p] = "backoff" => call[p].attempts = attempt[p] + 1

\* The second attempt of a call, admitted a second time, is in transport.
C15_Witness ==
  /\ cpc[1] = "transport"
  /\ attempt[1] = 1
  /\ call[1].admitted = 2
  /\ Len(requests[limOf[1]]) >= 2

\* C16: an attempt of a caller that fails in the transport call, after
\* acquire() admitted it, leaves every rate-limit window as it was: the
\* timestamp appended for the attempt stays, whether the wrapper goes on to
\* retry or raises.
C16_NoRefund ==
  [][\A p \in Procs :
       (/\ pc[p] = "caller"
        /\ cpc[p] = "transport"
        /\ \/ cpc'[p] = "backoff"
           \/ cpc'[p] = "none" /\ Raised(call'[p].outcome))
       => /\ requests' = requests
          /\ Len(requests[limOf[p]]) >= 1]_vars

\* The only attempt made so far failed and its timestamp is still in the
\* window.
C16_Witness ==
  /\ cpc[1] = "backoff"
  /\ call[1].attempts = 1
  /\ cpc[2] = "none" /\ ncalls[2] = 0
  /\ requests[limOf[1]] = <<0>>

\* The calls of all the limiters of the process admitted within the last
\* window_seconds seconds (strictly: an admission exactly window_seconds old
\* is not counted).
RecentAdmissions ==
  UNION { {<<l, i>> : i \in {k \in DOMAIN requests[l] :
                                requests[l][k] > now - WindowSeconds}} :
          l \in Procs }

\* C17: across two invocations running concurrently in one process, the
\* tracker calls admitted in any trailing window_seconds interval, whichever
\* invocation issued them, never number more than max_requests.
C17_OneWindowPerProcess ==
  Cardinality(RecentAdmissions) <= settings.GITHUB_API_MAX_REQUESTS

\* Title t matches, normalized, a title of the set at or above the threshold.
IsDuplicateOf(t, titles) ==
  \E e \in titles :
    CalculateSimilarity(NormalizeTitle(t), NormalizeTitle(e)) >= DuplicateThreshold

\* C20: each of two concurrent invocations checks its subtasks against the
\* snapshot it fetched before its loop and never reads the project again, so
\* every item an invocation creates passed the check against its own
\* snapshot, whatever the other invocation has created since; a state where
\* both have created an item with the same title is reachable (C20_Witness).
C20_StaleSnapshots ==
  /\ [](\A p \in Procs : \A n \in ItemsBy(p) :
          ~IsDuplicateOf(tracker[n].title, ci[p].filtered))
  /\ [][\A p \in Procs :
          (pc[p] = "create_issues" /\ query[p] \in LoopQueries) =>
            ci'[p].filtered = ci[p].filtered]_vars

\* Both invocations returned without error and the project holds an open item
\* of each with the same title, although duplicate checking is on.
C20_Witness ==
  /\ settings.CHECK_DUPLICATES
  /\ \A p \in Procs : pc[p] = "returned" /\ result[p].error = ""
  /\ \E n \in ItemsBy(1), m \in ItemsBy(2) :
       /\ tracker[n].title = tracker[m].title
       /\ tracker[n].onBoard /\ tracker[m].onBoard
       /\ tracker[n].state = "OPEN" /\ tracker[m].state = "OPEN"
       /\ ~IsDuplicateOf(tracker[n].title, ci[1].filtered)
       /\ ~IsDuplicateOf(tracker[m].title, ci[2].filtered)

\* C18: the window of a limiter is accessed under its lock: whoever holds the
\* lock is inside acquire() on that limiter, a caller sleeping in acquire()
\* holds it, and while it is held no step changes the window nor admits
\* another caller, who stays waiting for the lock.
C18_MutualExclusion ==
  /\ [](\A p \in Procs :
          /\ cpc[p] = "rl_sleep" => lock[limOf[p]] = p
          /\ lock[p] # NoProc =>
                limOf[lock[p]] = p /\ cpc[lock[p]] \in {"rl_sleep", "want"})
  /\ [][\A p \in Procs :
          lock[limOf[p]] # NoProc =>
            /\ requests'[limOf[p]] = requests[limOf[p]]
            /\ sent'[p] = sent[p]
            /\ cpc'[p] = "transport" => cpc[p] = "transport"
            /\ cpc[p] = "want" => cpc'[p] = "want"]_vars

\* Caller 1 sleeps inside acquire() and caller 2 waits for the lock.
C18_Witness ==
  /\ cpc[1] = "rl_sleep"
  /\ cpc[2] = "want"
  /\ lock[limOf[2]] = 1
  /\ wake[1] > now

\* The nodes of the graph in the order of its edges.
NodeOrder ==
  <<"clone_repo", "analyze_implementation", "breakdown_task", "create_issues">>

\* C19: the nodes an invocation has started are a prefix of clone_repo,
\* analyze_implementation, breakdown_task, create_issues (in this order, none
\* twice); a node is started only when the one before has returned, and no
\* tracker call is in flight outside create_issues; the items of the
\* invocation appear in the tracker in the order of the subtasks, none for a
\* subtask the loop has not reached, and every subtask before the current one
\* that got an item went through its pipeline to the end: one of its items is
\* on the board and recorded in created_issues, in subtask order.
C19_Sequential ==
  \A p \in Procs :
    /\ Len(executed[p]) <= Len(NodeOrder)
    /\ executed[p] = SubSeq(NodeOrder, 1, Len(executed[p]))
    /\ running[p] => (pc[p] = executed[p][Len(executed[p])] /\ cpc[p] = "none")
    /\ cpc[p] # "none" =>
          (pc[p] = "create_issues" /\ executed[p] = NodeOrder)
    /\ (pc[p] \in WorkflowNodes /\ Len(executed[p]) >= 1) =>
            pc[p] \in {executed[p][Len(executed[p])],
                       NodeOrder[IF Len(executed[p]) < 4
                                 THEN Len(executed[p]) + 1 ELSE 4]}
    /\ \A n, m \in ItemsBy(p) : n < m => tracker[n].sub <= tracker[m].sub
    /\ \A n \in ItemsBy(p) :
          /\ tracker[n].sub <= ci[p].i
          /\ tracker[n].sub < ci[p].i =>
                \E k \in 1..Len(ci[p].created_issues) :
                  LET m == ci[p].created_issues[k].url
                  IN  /\ m \in ItemsBy(p)
                      /\ tracker[m].sub = tracker[n].sub
                      /\ tracker[m].onBoard
    /\ \A k, h \in 1..Len(ci[p].created_issues) :
          k < h => tracker[ci[p].created_issues[k].url].sub
                     < tracker[ci[p].created_issues[h].url].sub

\* The four nodes ran and the loop created the item of subtask 1 and then the
\* item of subtask 2.
C19_Witness ==
  /\ pc[1] = "returned"
  /\ result[1].error = ""
  /\ executed[1] = NodeOrder
  /\ Len(ci[1].created_issues) = 2
  /\ \E n, m \in ItemsBy(1) :
       n < m /\ tracker[n].sub = 1 /\ tracker[m].sub = 2 /\ tracker[n].onBoard

\* C21: the create-issue call is retried like any other call: a create call
\* that returns adds a new item for the current subtask, whether or not the
\* tracker already holds an item that an earlier attempt of the same call
\* left there, and an attempt that backs off leaves behind what the tracker
\* committed; so a subtask can own two items with the same title.
C21_RetriedCreateDuplicates ==
  [][\A p \in Procs :
       (pc[p] = "create_issues" /\ cpc[p] = "transport" /\ query[p] = "create") =>
         /\ query'[p] = "add" =>
               /\ Len(tracker') = Len(tracker) + 1
               /\ tracker'[Len(tracker')] =
                    Issue(CurrentSubtask(p).title, "OPEN", FALSE, p, ci[p].i)
               /\ ci'[p].issue_id = Len(tracker')
         /\ cpc'[p] = "backoff" =>
               /\ query'[p] = "create"
               /\ Len(tracker') >= Len(tracker)
               /\ SubSeq(tracker', 1, Len(tracker)) = tracker]_vars

\* The response of the first create call of subtask 1 was lost, the retry
\* succeeded, and the tracker holds two items of subtask 1 with one title.
C21_Witness ==
  /\ query[1] = "add"
  /\ ci[1].i = 1
  /\ \E n, m \in ItemsBy(1) :
       /\ n < m
       /\ tracker[n].sub = 1 /\ tracker[m].sub = 1
       /\ tracker[n].title = tracker[m].title
       /\ ci[1].issue_id = m

\* C22: a title that does not match the conventional grammar, the empty
\* title and a title with an empty description included, is turned by
\* validate_and_format_title into a title that matches it.
C22_NormalizedMatchesGrammar ==
  (fn.op = "title" /\ fn.n >= 1 /\ ~IsConventionalFormat(fn.arg)) =>
    IsConventionalFormat(fn.first.title)

\* C23: validate_and_format_title applied to the title it returned returns
\* that title again and reports was_modified = false.
C23_NormalizeIdempotent ==
  (fn.op = "title" /\ fn.n = 2) =>
    /\ fn.second.title = fn.first.title
    /\ ~fn.second.was_modified

\* C24: a title assembled by the normalization is at most MAX_TITLE_LENGTH
\* characters long, whatever the lengths of its type, scope and description.
C24_AssembledTitleFits ==
  (fn.op = "title" /\ fn.n >= 1 /\ fn.first.was_modified) =>
    Len(fn.first.title) <= MaxTitleLength

\* C25: "add login page" is normalized to "feat: add login page" with
\* was_modified = true, and "Feat(api): Add Endpoint", which the
\* case-sensitive grammar rejects, comes back reformatted with
\* was_modified = true.
C25_Scenarios ==
  (fn.op = "title" /\ fn.n >= 1) =>
    /\ fn.arg = AddLoginPage =>
          fn.first = [title |-> <<"f", "e", "a", "t", ":", " ">> \o AddLoginPage,
                      was_modified |-> TRUE]
    /\ fn.arg = FeatApiAddEndpoint =>
          /\ ~IsConventionalFormat(FeatApiAddEndpoint)
          /\ fn.first.was_modified
          /\ fn.first.title # FeatApiAddEndpoint
          /\ IsConventionalFormat(fn.first.title)

\* "Feat(api): Add Endpoint" has been through validate_and_format_title.
C25_Witness ==
  /\ fn.op = "title"
  /\ fn.n = 1
  /\ fn.arg = FeatApiAddEndpoint
  /\ fn.first.title = <<"f", "e", "a", "t", "(", "a", "p", "i", ")", ":", " ", "f">>
                         \o Drop(FeatApiAddEndpoint, 1)

\* The similarity of the new title of the call on trial to its n-th existing
\* title, both normalized.
SimilarityTo(n) ==
  Similarity(NormalizeTitleChars(fn.arg.new), NormalizeTitleChars(fn.arg.existing[n]))

\* C26: find_similar_issues returns existing items whose normalized title is
\* at or above the threshold, each once, in the order of decreasing
\* similarity, all of them when they are at most 5 and else 5 of them that
\* no left-out item beats; check_for_duplicates says "duplicate" exactly when
\* that list is not empty, which is when some item is at or above the
\* threshold.
C26_FindSimilar ==
  (fn.op = "similar" /\ fn.n = 1) =>
    LET res == fn.out.similar_issues
        qualifying == {n \in 1..Len(fn.arg.existing) :
                         AtThreshold(SimilarityTo(n), fn.arg.threshold)}
        returned == {res[r] : r \in 1..Len(res)}
    IN  /\ returned \subseteq qualifying
        /\ Cardinality(returned) = Len(res)
        /\ Len(res) = IF Cardinality(qualifying) < MaxResults
                      THEN Cardinality(qualifying) ELSE MaxResults
        /\ \A r, q \in 1..Len(res) :
              r < q => FracGeq(SimilarityTo(res[r]), SimilarityTo(res[q]))
        /\ \A n \in qualifying \ returned : \A r \in 1..Len(res) :
              FracGeq(SimilarityTo(res[r]), SimilarityTo(n))
        /\ fn.out.is_duplicate <=> Len(res) > 0
        /\ fn.out.is_duplicate <=> qualifying # {}

\* Six existing items are at or above the threshold; five are returned, the
\* closest first, and not in the order of the list.
C26_Witness ==
  /\ fn.op = "similar"
  /\ fn.n = 1
  /\ Len(fn.arg.existing) = 6
  /\ \A n \in 1..6 : AtThreshold(SimilarityTo(n), fn.arg.threshold)
  /\ Len(fn.out.similar_issues) = MaxResults
  /\ fn.out.similar_issues[1] = 6
  /\ fn.out.is_duplicate

\* C27: with the existing items "feat(auth): add login" and
\* "fix(db): timeout", the new title "feat(auth): add login flow" is flagged
\* at threshold 0.8 as a duplicate of the first item and not of the second.
C27_ScenarioFlagged ==
  (/\ fn.op = "similar"
   /\ fn.n = 1
   /\ fn.arg = [new |-> ScenarioNew, existing |-> ScenarioExisting,
                threshold |-> DuplicateThreshold])
  => /\ fn.out.is_duplicate
     /\ fn.out.similar_issues = <<1>>

\* C28: for every max_chars and max_functions, the code-excerpt section that
\* read_code_intelligently returns (a text with at least one excerpt, not the
\* notice that nothing was found) has at most max_chars characters and
\* contains at most max_functions definitions.
C28_ExcerptWithinBudget ==
  (fn.op = "excerpt" /\ fn.n = 1 /\ fn.out.definitions >= 1) =>
    /\ Len(fn.out.text) <= fn.arg.max_chars
    /\ fn.out.definitions <= fn.arg.max_functions

\* C29: a malformed analysis response (not JSON, JSON that is not an object,
\* or an object lacking is_implemented or confidence) never propagates an
\* error: the analysis result is is_implemented = false, confidence = 0.0,
\* AnalyzeImplementation records no terminal error and the workflow proceeds
\* to BreakdownTask.
C29_MalformedAnalysisFallsBack ==
  (/\ fn.op = "analysis"
   /\ fn.n = 1
   /\ \/ fn.arg.json.kind # "object"
      \/ ~({"is_implemented", "confidence"} \subseteq fn.arg.json.keys)) =>
    /\ fn.out.state.is_implemented = FALSE
    /\ fn.out.state.confidence = 0
    /\ fn.out.state.error = ""
    /\ fn.out.next = "breakdown_task"

\* C30: a malformed decomposition response is fatal: BreakdownTask records a
\* terminal error, so an unparseable response never leaves a WorkflowState
\* with an empty subtask list and no terminal error.
C30_MalformedDecompositionIsFatal ==
  (/\ fn.op = "breakdown"
   /\ fn.n = 1
   /\ \/ fn.arg.json.kind # "object"
      \/ "subtasks" \notin fn.arg.json.keys
      \/ fn.arg.json.subtasks.kind # "list") =>
    /\ fn.out.state.error # ""
    /\ ~(fn.out.state.subtasks = <<>> /\ fn.out.state.error = "")

\* C31: whenever clone_or_update(url, branch) returns success, the local
\* root it returns holds the latest fetched state of the requested branch of
\* the repository at url, without local modifications.
C31_LocalRootIsRequestedTip ==
  (fn.op = "clone" /\ fn.last.ok) =>
    /\ fn.dirs[fn.last.path].head =
         [repo |-> fn.last.repo_url, branch |-> fn.last.branch, n |-> fn.last.tip]
    /\ ~fn.dirs[fn.last.path].dirty

\* C38: the snapshot cache never serves one repository's content for
\* another: a successful clone_or_update for the URL u returns a local copy
\* whose content was fetched from u, also when two URLs end in the same path
\* segment.
C38_ContentFetchedFromUrl ==
  (fn.op = "clone" /\ fn.last.ok) =>
    /\ fn.dirs[fn.last.path].origin = fn.last.repo_url
    /\ fn.dirs[fn.last.path].head.repo = fn.last.repo_url

\* C32: whenever BreakdownTask completes without recording an error, the
\* subtask list stored in the WorkflowState has between 1 and 15 entries.
C32_SubtaskCountInRange ==
  (fn.op = "breakdown" /\ fn.n = 1 /\ fn.out.state.error = "") =>
    /\ Len(fn.out.state.subtasks) >= 1
    /\ Len(fn.out.state.subtasks) <= 15

\* The definitions of the Python files of a list, in file-then-definition
\* order, each with the path of its file.
RECURSIVE FileThenDefinitionOrder(_)
FileThenDefinitionOrder(files) ==
  IF files = <<>> THEN <<>>
  ELSE LET f == Head(files)
       IN  (IF IsPython(f.path)
            THEN [i \in 1..Len(f.defs) |-> [path |-> f.path, definition |-> f.defs[i]]]
            ELSE <<>>)
             \o FileThenDefinitionOrder(Tail(files))

\* The excerpts of the definitions of such a list from the i-th on, up to the
\* first one that does not fit the budget left.
RECURSIVE UpToFirstMisfit(_, _, _, _, _, _)
UpToFirstMisfit(flat, i, total_chars, function_count, max_functions, max_chars) ==
  IF i > Len(flat) THEN <<>>
  ELSE IF function_count >= max_functions THEN <<>>
  ELSE IF total_chars + Len(flat[i].definition.code) > max_chars THEN <<>>
  ELSE <<ExcerptPart(flat[i].path, flat[i].definition)>>
         \o UpToFirstMisfit(flat, i + 1, total_chars + Len(flat[i].definition.code),
                            function_count + 1, max_functions, max_chars)

\* C33: context assembly appends definitions in file-then-definition order
\* and stops at the first definition that does not fit: the text returned
\* holds exactly the definitions before the first one that meets
\* max_functions or would push the total over max_chars, and no later
\* definition of the same file or of a later file.
C33_StopsAtFirstMisfit ==
  (fn.op = "excerpt" /\ fn.n = 1) =>
    LET parts == UpToFirstMisfit(FileThenDefinitionOrder(fn.arg.relevant_files), 1, 0, 0,
                                 fn.arg.max_functions, fn.arg.max_chars)
    IN  fn.out.text = IF parts = <<>> THEN NoRelevantCodeFound ELSE JoinLines(parts)

\* C34: the effort-to-size mapping is the identity on S, M and L and M for
\* any other value, and a board without a Size field, without a Status field
\* or without the option of the mapped name is not fatal: when the
\* add-to-board call of a subtask has returned (the invocation was not
\* cancelled by its timeout while waiting for it), a Size that cannot be set is
\* passed over and a Size that can be set is set; with no Status to set
\* either, the item is appended to the created-items list, and no terminal
\* error is recorded for it (only a later subtask without a title can end
\* the loop in the same step).
C34_MissingFieldIsNotFatal ==
  [][\A p \in DOMAIN pc :
       LET c == ci[p]
           effort == CurrentSubtask(p).effort
           mapped == IF effort \in {"S", "M", "L"} THEN effort ELSE "M"
           sizeMissing == ~c.size_field.present \/ mapped \notin c.size_field.options
           statusMissing == \/ ~c.status_field.present
                            \/ DefaultProjectStatus \notin c.status_field.options
       IN  (/\ pc[p] = "create_issues"
            /\ cpc[p] = "transport"
            /\ query[p] = "add"
            /\ ~tracker[c.issue_id].onBoard
            /\ tracker'[c.issue_id].onBoard
            /\ ~(pc'[p] = "returned" /\ result'[p].error = "Workflow timeout")) =>
             IF ~sizeMissing
             THEN query'[p] = "size" /\ pc'[p] = "create_issues" /\ state'[p].error = ""
             ELSE IF ~statusMissing
             THEN query'[p] = "status" /\ pc'[p] = "create_issues" /\ state'[p].error = ""
             ELSE /\ ci'[p].created_issues =
                       Append(c.created_issues,
                              [title |-> CurrentSubtask(p).title, url |-> c.issue_id])
                  /\ state'[p].error # "" =>
                       ci'[p].raisedAt = "title" /\ ci'[p].i > c.i]_vars

\* an item was appended on a board without Size and Status fields and the
\* loop went on to the create-issue call of the next subtask
C34_Witness ==
  \E p \in DOMAIN pc :
    /\ pc[p] = "create_issues"
    /\ ci[p].i = 2
    /\ query[p] = "create"
    /\ Len(ci[p].created_issues) = 1
    /\ ~ci[p].size_field.present
    /\ ~ci[p].status_field.present
    /\ tracker[ci[p].created_issues[1].url].onBoard
    /\ state[p].error = ""

\* C35: each transport attempt made by execute_query, retries included, is
\* preceded by its own acquire() admission: the step that sends a transport
\* call appends exactly one timestamp, the current time, to the window of the
\* caller's limiter, and a call that returns or gives up after k attempts has
\* been admitted k times.
C35_TimestampPerAttempt ==
  [][\A p \in Procs :
       /\ sent'[p] # sent[p] =>
            /\ cpc'[p] = "transport"
            /\ sent'[p] = [sent[p] EXCEPT ![query'[p]] = @ + 1]
            /\ requests'[limOf[p]] =
                 Append(DropExpired(requests[limOf[p]], now), now)
            /\ call'[p].admitted = attempt'[p] + 1
       /\ (pc[p] = "caller" /\ cpc[p] = "transport" /\ cpc'[p] = "none") =>
            /\ call'[p].attempts = attempt[p] + 1
            /\ call'[p].admitted = call'[p].attempts]_vars

\* A call that failed twice and succeeded at its third attempt, each attempt
\* with its own timestamp.
C35_Witness ==
  \E p \in Procs :
    /\ pc[p] = "caller"
    /\ cpc[p] = "none"
    /\ call[p].outcome = "ok"
    /\ call[p].attempts = MaxRetries
    /\ call[p].admitted = MaxRetries

\* C36: the terminal error of a WorkflowState is written at most once: once
\* a step of an invocation has recorded an error, no later step of the same
\* invocation changes it (short of the timeout of execute(), which returns a
\* state of its own), so the returned error names the first failure.
C36_ErrorWrittenOnce ==
  [][\A p \in Procs :
       (/\ pc[p] \in WorkflowNodes
        /\ state[p].error # ""
        /\ ~(pc'[p] = "returned" /\ result'[p].error = "Workflow timeout")) =>
         /\ state'[p].error = state[p].error
         /\ pc'[p] = "returned" => result'[p].error = state[p].error]_vars

\* C37: at the end of every invocation, each issue the invocation created
\* in the repository is on the project board and is listed in the returned
\* created-items list, also when the invocation failed or timed out between
\* the create-issue call and the add-to-project call.
C37_CreatedIsOnBoardAndReported ==
  \A p \in Procs :
    pc[p] = "returned" =>
      \A n \in 1..Len(tracker) :
        tracker[n].by = p =>
          /\ tracker[n].onBoard
          /\ \E k \in 1..Len(result[p].created_issues) :
                result[p].created_issues[k].url = n

\* C39: if every external call (clone, oracle calls, tracker transport)
\* returns or fails in finite time, every execute() invocation eventually
\* returns a WorkflowState, whatever max_requests and the number of
\* subtasks, also when _create_issues asks for more tracker calls than
\* max_requests within one window (the invocation then returns the timeout
\* state).
C39_EveryInvocationReturns ==
  \A p \in Procs :
    (pc[p] \in WorkflowNodes /\ ~cloneHangs[p]) ~> (pc[p] = "returned")

\* An invocation with max_requests = 2 whose third tracker call was never
\* admitted, no call having failed, has returned the timeout state.
C39_Witness ==
  /\ settings.GITHUB_API_MAX_REQUESTS = MaxRequests
  /\ pc[1] = "returned"
  /\ result[1].error = "Workflow timeout"
  /\ ~cloneHangs[1]
  /\ nfailed[1] = 0
  /\ sent[1]["ids"] = 1 /\ sent[1]["items"] = 1 /\ sent[1]["fields"] = 0

====
